---------------------------- MODULE Spec2Model ----------------------------
(***************************************************************************)
(* The Flock and the Flood: the triangular terrain mesh, the flood         *)
(* relaxation, and the sheep simulation of src/terrain.ts and src/index.ts.*)
(*                                                                         *)
(* Units.  Heights, water depths and water levels are integers counting    *)
(* hundredths of a height unit (the flood's commit threshold 0.01 is 1).   *)
(* Grass and stored food are integers counting thousandths (a bite of      *)
(* 0.005 is 5, the price 5 of a sheep is 5000).  Arithmetic is exact: the  *)
(* Float32 rounding of the depth arrays is not modelled.                   *)
(***************************************************************************)
EXTENDS Integers, Sequences, FiniteSets, TLC

VARIABLES
    heightmap,            \* TerrainGeometry.heightmap: vertex -> height
    vertexWaterDepth,     \* TerrainGeometry.vertexWaterDepth: vertex -> depth
    faceGrass,            \* TerrainGeometry.faceGrass: face -> grass
    sheep,                \* App.sheep: the live list, each a Sheep record
    faceSheepSlotFree,    \* App.faceSheepSlotFree: face -> <<b,b,b>> or Undefined
    flockingPoint,        \* App.flockingPoint: a face or Null
    waterLevel,           \* App.waterLevel
    waterCounter,         \* App.waterCounter
    frame,                \* App.frame
    sheepStoredFood,      \* App.sheepStoredFood
    templeLevel,          \* App.templeLevel
    flockSize,            \* sheep.length as slowTick's temple check reads it
    errors,               \* the diagnostics raised so far (console.error, throw)
    created,              \* history: the number of Sheep objects constructed
    clicks,               \* history: the number of raycast calls
    rendered,             \* history: the number of render calls
    lastFlood,            \* history: the flood calls so far (see FloodRecord)
    log                   \* history: what the last step did

vars == <<heightmap, vertexWaterDepth, faceGrass, sheep, faceSheepSlotFree,
          flockingPoint, waterLevel, waterCounter, frame, sheepStoredFood,
          templeLevel, flockSize, errors, created, clicks, rendered,
          lastFlood, log>>

appVars == <<faceGrass, sheep, faceSheepSlotFree, flockingPoint, waterLevel,
             waterCounter, frame, sheepStoredFood, templeLevel, errors,
             created, clicks, rendered>>

\* the values of the game's variables, as the log of a step records them
\* from the state the step starts in
Snapshot ==
    [heightmap |-> heightmap, vertexWaterDepth |-> vertexWaterDepth,
     sheep |-> sheep, flockSize |-> flockSize,
     faceGrass |-> faceGrass, faceSheepSlotFree |-> faceSheepSlotFree,
     flockingPoint |-> flockingPoint, waterLevel |-> waterLevel,
     waterCounter |-> waterCounter, frame |-> frame,
     sheepStoredFood |-> sheepStoredFood, templeLevel |-> templeLevel,
     errors |-> errors, created |-> created, clicks |-> clicks,
     rendered |-> rendered, lastFlood |-> lastFlood]

\* flockingPoint = null
Null == -1
\* faceSheepSlotFree[f] of a face never written: undefined
Undefined == <<>>

-----------------------------------------------------------------------------
(* Bounds of the model *)

\* quads per side of the mesh (35 in the game, src/index.ts:156)
Resolution == 2

-----------------------------------------------------------------------------
(* Small helpers *)

Max2(a, b) == IF a >= b THEN a ELSE b
Min2(a, b) == IF a <= b THEN a ELSE b
Abs(a) == IF a >= 0 THEN a ELSE -a
Range(s) == {s[k] : k \in DOMAIN s}

RECURSIVE SetMax(_)
SetMax(S) == LET x == CHOOSE x \in S : TRUE
             IN IF S = {x} THEN x ELSE Max2(x, SetMax(S \ {x}))

RECURSIVE SetMin(_)
SetMin(S) == LET x == CHOOSE x \in S : TRUE
             IN IF S = {x} THEN x ELSE Min2(x, SetMin(S \ {x}))

RECURSIVE Flatten(_)
Flatten(ss) == IF ss = <<>> THEN <<>> ELSE Head(ss) \o Flatten(Tail(ss))

\* the elements of s in the order of their first occurrence
RECURSIVE Dedup(_)
Dedup(s) ==
    IF s = <<>> THEN <<>>
    ELSE LET d == Dedup(SubSeq(s, 1, Len(s) - 1))
             x == s[Len(s)]
         IN IF x \in Range(d) THEN d ELSE Append(d, x)

Count(s, x) == Cardinality({k \in DOMAIN s : s[k] = x})

-----------------------------------------------------------------------------
(* TerrainGeometry: the mesh (src/terrain.ts) *)

resolution == Resolution

(* The mesh the constructor builds for resolution r *)

\* row and col of vertex n in a mesh of resolution r
rowAt(r, n) == n \div (r + 1)
colAt(r, n) == n % (r + 1)

\* the two initFace calls of vertex n, as <<faceIdx, <<a, b, c>>>>
initFacesAt(r, n) ==
    IF rowAt(r, n) % 2 # 0
    THEN << <<n * 2 + 0, <<n, n + 1, n + r + 1>> >>,
            <<n * 2 + 1, <<n + 1, n + r + 2, n + r + 1>> >> >>
    ELSE << <<n * 2 + 0, <<n, n + r + 2, n + r + 1>> >>,
            <<n * 2 + 1, <<n, n + 1, n + r + 2>> >> >>

\* every initFace call of the constructor from vertex n on, in call order
RECURSIVE initFaceCallsAt(_, _)
initFaceCallsAt(r, n) ==
    IF n >= (r + 1) * (r + 1) THEN <<>>
    ELSE (IF rowAt(r, n) # r /\ colAt(r, n) # r THEN initFacesAt(r, n)
          ELSE <<>>) \o initFaceCallsAt(r, n + 1)

\* this.faces, in push order
facesAt(r) ==
    LET calls == initFaceCallsAt(r, 0)
    IN [k \in DOMAIN calls |-> calls[k][1]]

\* this.faceToVertices: face -> <<a, b, c>>
faceToVerticesAt(r) ==
    LET calls == initFaceCallsAt(r, 0)
    IN [f \in {calls[k][1] : k \in DOMAIN calls} |->
           calls[CHOOSE k \in DOMAIN calls : calls[k][1] = f][2]]

\* the pushes onto this.vertexToFaces of every initFace call, in order, as
\* <<vertex, faceIdx>>: three for each call, onto a, b and c
vertexPushesAt(r) ==
    LET calls == initFaceCallsAt(r, 0)
    IN [j \in 1 .. (3 * Len(calls)) |->
           <<calls[((j - 1) \div 3) + 1][2][((j - 1) % 3) + 1],
             calls[((j - 1) \div 3) + 1][1]>>]

\* this.vertexToFaces: vertex -> the faces pushed onto it, in push order
\* (<<>> for a vertex without an entry)
vertexToFacesAt(r) ==
    LET pushes == vertexPushesAt(r)
    IN [v \in 0 .. ((r + 1) * (r + 1) - 1) |->
           LET onto == SelectSeq(pushes, LAMBDA p : p[1] = v)
           IN [j \in DOMAIN onto |-> onto[j][2]]]

\* adjacentFaces(faceIdx) with the Map counting every hit
adjacentFacesSharingVertex(r, faceIdx) ==
    LET f2v == faceToVerticesAt(r)
        v2f == vertexToFacesAt(r)
        hits == Flatten([k \in 1..3 |->
                    SelectSeq(v2f[f2v[faceIdx][k]],
                              LAMBDA otherFace : otherFace # faceIdx)])
    IN SelectSeq(Dedup(hits), LAMBDA k : Count(hits, k) >= 1)

\* adjacentFaces(faceIdx): the entries of the Map in insertion order whose
\* value is 2, i.e. that were hit at least twice
adjacentFacesAt(r, faceIdx) ==
    LET f2v == faceToVerticesAt(r)
        v2f == vertexToFacesAt(r)
        hits == Flatten([k \in 1..3 |->
                    SelectSeq(v2f[f2v[faceIdx][k]],
                              LAMBDA otherFace : otherFace # faceIdx)])
    IN SelectSeq(Dedup(hits), LAMBDA k : Count(hits, k) >= 2)

\* adjacentPoints(pointIndex) without the test point != pointIndex
adjacentPointsWithSelf(r, pointIndex) ==
    LET f2v == faceToVerticesAt(r)
        v2f == vertexToFacesAt(r)
    IN Dedup(Flatten([k \in DOMAIN v2f[pointIndex] |->
                         f2v[v2f[pointIndex][k]]]))

\* adjacentPoints(pointIndex): the Set's entries in insertion order
adjacentPointsAt(r, pointIndex) ==
    LET f2v == faceToVerticesAt(r)
        v2f == vertexToFacesAt(r)
    IN Dedup(SelectSeq(
          Flatten([k \in DOMAIN v2f[pointIndex] |-> f2v[v2f[pointIndex][k]]]),
          LAMBDA point : point # pointIndex))

\* xyAtPointIndex with x - sideLen/2 for the even rows
xyAtPointIndexJagBack(r, index) ==
    [x |-> colAt(r, index) * 2 - (IF rowAt(r, index) % 2 = 0 THEN 1 ELSE 0),
     y |-> rowAt(r, index)]

\* xyAtPointIndex, x in units of sideLen/2 and y in units of heightStep
xyAtPointIndexAt(r, index) ==
    [x |-> colAt(r, index) * 2 + (IF rowAt(r, index) % 2 = 0 THEN 1 ELSE 0),
     y |-> rowAt(r, index)]

(* The mesh of the game *)

numQuads == resolution * resolution

numUniqueVertices == (resolution + 1) * (resolution + 1)

Vertices == 0 .. (numUniqueVertices - 1)

rowOf(n) == rowAt(resolution, n)
colOf(n) == colAt(resolution, n)

\* the vertices that own a quad: not in the last row or column
ownsQuad(n) == rowOf(n) # resolution /\ colOf(n) # resolution

\* the two initFace calls of vertex n, as <<faceIdx, <<a, b, c>>>>
initFaces(n) == initFacesAt(resolution, n)

\* every initFace call of the constructor, in call order
initFaceCalls(n) == initFaceCallsAt(resolution, n)

faceCalls == initFaceCalls(0)

\* this.faces, in push order
faces == facesAt(resolution)

Faces == Range(faces)

\* this.faceToVertices: face -> <<a, b, c>>
faceToVertices == faceToVerticesAt(resolution)

\* this.vertexToFaces: vertex -> the faces pushed onto it, in push order
vertexToFaces == vertexToFacesAt(resolution)

\* the entries of adjacentFaces' Map, in insertion order, with multiplicity
adjacentFaceHits(faceIdx) ==
    Flatten([k \in 1..3 |->
        SelectSeq(vertexToFaces[faceToVertices[faceIdx][k]],
                  LAMBDA otherFace : otherFace # faceIdx)])

adjacentFacesOf(faceIdx) == adjacentFacesAt(resolution, faceIdx)

\* adjacentFaces(faceIdx), tabulated
adjacentFaces == [f \in Faces |-> adjacentFacesOf(f)]

adjacentPointsOf(pointIndex) ==
    Dedup(SelectSeq(
        Flatten([k \in DOMAIN vertexToFaces[pointIndex] |->
                    faceToVertices[vertexToFaces[pointIndex][k]]]),
        LAMBDA point : point # pointIndex))

\* adjacentPoints(pointIndex), tabulated
adjacentPoints == [v \in Vertices |-> adjacentPointsOf(v)]

xyAtPointIndex(index) == xyAtPointIndexAt(resolution, index)

\* xyFaceCenter times 3 (the sums, before the division by 3)
xyFaceCenter(faceIndex) ==
    LET a == xyAtPointIndex(faceToVertices[faceIndex][1])
        b == xyAtPointIndex(faceToVertices[faceIndex][2])
        c == xyAtPointIndex(faceToVertices[faceIndex][3])
    IN [x |-> a.x + b.x + c.x, y |-> a.y + b.y + c.y]

\* (ax - bx)^2 + (ay - by)^2 of two face centers, in units of (sideLen/6)^2:
\* heightStep^2 = sideLen^2 + (sideLen/2)^2 = 5 * (sideLen/2)^2
distSq(f, g) ==
    LET p == xyFaceCenter(f)
        q == xyFaceCenter(g)
    IN (p.x - q.x) * (p.x - q.x) + 5 * (p.y - q.y) * (p.y - q.y)

isEdge(i) ==
    \/ rowOf(i) = 0
    \/ colOf(i) = 0
    \/ rowOf(i) = resolution
    \/ colOf(i) = resolution

\* the j visited by flood's two inner loops for vertex i, in visiting order
floodNeighbours ==
    [i \in Vertices |->
        SelectSeq(
            Flatten([k \in DOMAIN vertexToFaces[i] |->
                        faceToVertices[vertexToFaces[i][k]]]),
            LAMBDA j : j # i)]

\* the commit threshold of flood: 0.01
FloodEps == 1

\* spread taking the depth of the neighbour, not the difference of the surfaces
RECURSIVE spreadCopiesDepth(_, _, _, _, _)
spreadCopiesDepth(hm, depth, i, k, s) ==
    IF k > Len(floodNeighbours[i]) THEN s
    ELSE LET j == floodNeighbours[i][k]
         IN spreadCopiesDepth(hm, depth, i, k + 1,
                IF depth[j] > 0 /\ hm[j] + depth[j] > hm[i] + s
                THEN Max2(s, depth[j])
                ELSE s)

\* the spreading loop of flood for an interior vertex i, from neighbour k on
RECURSIVE spread(_, _, _, _, _)
spread(hm, depth, i, k, s) ==
    IF k > Len(floodNeighbours[i]) THEN s
    ELSE LET j == floodNeighbours[i][k]
         IN spread(hm, depth, i, k + 1,
                IF depth[j] > 0 /\ hm[j] + depth[j] > hm[i] + s
                THEN Max2(s, hm[j] + depth[j] - hm[i])
                ELSE s)

\* floodScratch with the subtraction of the edge branch turned round
floodScratchEdgeTurned(hm, depth, edgeWaterLevel) ==
    [i \in Vertices |->
        IF isEdge(i) THEN hm[i] - edgeWaterLevel
        ELSE spread(hm, depth, i, 1, depth[i])]

\* floodScratch whose spreading loop reads scratchVertexWaterDepth[j] for
\* the boundary vertices the first loop has passed
floodScratchInPlace(hm, depth, edgeWaterLevel) ==
    [i \in Vertices |->
        IF isEdge(i) THEN edgeWaterLevel - hm[i]
        ELSE spread(hm,
                    [j \in Vertices |->
                        IF isEdge(j) /\ j < i THEN edgeWaterLevel - hm[j]
                        ELSE depth[j]],
                    i, 1, depth[i])]

\* floodScratch without "this.scratchVertexWaterDepth.set(this.vertexWaterDepth)":
\* the spreading loop starts every interior vertex from depth 0
floodScratchFromZero(hm, depth, edgeWaterLevel) ==
    [i \in Vertices |->
        IF isEdge(i) THEN edgeWaterLevel - hm[i]
        ELSE spread(hm, depth, i, 1, 0)]

\* scratchVertexWaterDepth after the first loop of flood
floodScratch(hm, depth, edgeWaterLevel) ==
    [i \in Vertices |->
        IF isEdge(i) THEN edgeWaterLevel - hm[i]
        ELSE spread(hm, depth, i, 1, depth[i])]

\* floodChanged with ">= 0" for "> 0.01": every pass counts as a change
floodChangedAlways(scratch, depth) ==
    \E i \in Vertices : Abs(scratch[i] - depth[i]) >= 0

\* the second loop of flood: some vertex differs by more than 0.01
floodChanged(scratch, depth) ==
    \E i \in Vertices : Abs(scratch[i] - depth[i]) > FloodEps

\* flood that stores the proposed depth of the changed vertices only
floodCommitsChanged(hm, depth, edgeWaterLevel) ==
    LET scratch == floodScratch(hm, depth, edgeWaterLevel)
        changed == floodChanged(scratch, depth)
    IN [changed |-> changed,
        depth |-> [i \in Vertices |->
                     IF Abs(scratch[i] - depth[i]) > FloodEps
                     THEN scratch[i] ELSE depth[i]]]

\* flood(edgeWaterLevel): the return value and vertexWaterDepth afterwards
flood(hm, depth, edgeWaterLevel) ==
    LET scratch == floodScratch(hm, depth, edgeWaterLevel)
        changed == floodChanged(scratch, depth)
    IN [changed |-> changed, depth |-> IF changed THEN scratch ELSE depth]

faceVerticesAllWater(depth, faceIdx) ==
    \A k \in 1..3 : ~(depth[faceToVertices[faceIdx][k]] = 0)

\* the vertex the constructor's highestVertex loop ends with
highestVertexOf(hm) ==
    CHOOSE i \in Vertices :
        /\ \A j \in Vertices : hm[j] <= hm[i]
        /\ \A j \in Vertices : j < i => hm[j] < hm[i]

-----------------------------------------------------------------------------
(* Sheep and App (src/index.ts) *)

\* the sheep created by the first click: 20 in the game (src/index.ts:493)
InitialFlock == 2

\* Sheep.faceIndex of a sheep not placed yet
Unplaced == -1

\* min(currentGrass, 0.005): the bite of one sheep per slow tick (thousandths)
Bite == 5

\* the stored food a spawn needs and costs: 5 (thousandths)
SpawnCost == 5000

\* the fast ticks between two raises of the water level
WaterPeriod == 600

\* the number of additions progress += 1/10 after which progress >= 1 holds:
\* in IEEE doubles ten additions of 1/10 give 0.9999999999999999
ProgressSteps == 11

\* console.error("caller failed to check face was available")
CallerFailed == "caller failed to check face was available"
\* assert(this.flockingPoint != null, ...) throwing
AssertFailed == "assertion failed: flocking point unexpectedly null!"
\* history, no diagnostic of the program: setSheepOnFace was called for a
\* face for which canSetSheepOnFace was false at the call
Unchecked == "setSheepOnFace called on a face that cannot take a sheep"

\* new Sheep(), the id-th one constructed
newSheep(id) ==
    [id |-> id, faceIndex |-> Unplaced, slot |-> 0, movement |-> <<>>,
     isDead |-> FALSE]

\* Sheep.startMovement: movement = <<n>> after n additions to progress
startMovement(s, towardsFaceIndex, slot) ==
    [s EXCEPT !.faceIndex = towardsFaceIndex, !.slot = slot,
              !.movement = <<0>>]

\* Sheep.tick
sheepTick(s) ==
    IF s.movement = <<>> THEN s
    ELSE IF s.movement[1] + 1 >= ProgressSteps
         THEN [s EXCEPT !.movement = <<>>]
         ELSE [s EXCEPT !.movement = <<s.movement[1] + 1>>]

\* Sheep.die
die(s) == [s EXCEPT !.isDead = TRUE]

countSheepOnFace(flock, faceIndex) ==
    Cardinality({k \in DOMAIN flock : flock[k].faceIndex = faceIndex})

canSetSheepOnFace(depth, slots, faceIndex) ==
    IF faceVerticesAllWater(depth, faceIndex) THEN FALSE
    ELSE IF slots[faceIndex] = Undefined THEN TRUE
    ELSE slots[faceIndex][1] \/ slots[faceIndex][2] \/ slots[faceIndex][3]

\* setSheepOnFace without "this.faceSheepSlotFree[faceIndex][slot] = false"
setSheepOnFaceSlotLeftFree(slots, s, faceIndex) ==
    LET slots1 == IF slots[faceIndex] = Undefined
                  THEN [slots EXCEPT ![faceIndex] = <<TRUE, TRUE, TRUE>>]
                  ELSE slots
        firstFree == {i \in 0..2 : slots1[faceIndex][i + 1]}
        slots2 == IF s.faceIndex \in Faces /\ slots1[s.faceIndex] # Undefined
                  THEN [slots1 EXCEPT ![s.faceIndex][s.slot + 1] = TRUE]
                  ELSE slots1
    IN IF firstFree = {}
       THEN {[sheep |-> s, slots |-> slots1, failed |-> TRUE]}
       ELSE {[sheep |-> startMovement(s, faceIndex, slot),
              slots |-> slots2, failed |-> FALSE] : slot \in firstFree}

\* setSheepOnFace(sheep, faceIndex): the possible results, one per order the
\* shuffle may give the slots; failed: the console.error branch was taken
setSheepOnFace(slots, s, faceIndex) ==
    LET slots1 == IF slots[faceIndex] = Undefined
                  THEN [slots EXCEPT ![faceIndex] = <<TRUE, TRUE, TRUE>>]
                  ELSE slots
        firstFree == {i \in 0..2 : slots1[faceIndex][i + 1]}
        slots2 == IF s.faceIndex \in Faces /\ slots1[s.faceIndex] # Undefined
                  THEN [slots1 EXCEPT ![s.faceIndex][s.slot + 1] = TRUE]
                  ELSE slots1
    IN IF firstFree = {}
       THEN {[sheep |-> s, slots |-> slots1, failed |-> TRUE]}
       ELSE {[sheep |-> startMovement(s, faceIndex, slot),
              slots |-> [slots2 EXCEPT ![faceIndex][slot + 1] = FALSE],
              failed |-> FALSE] : slot \in firstFree}

\* The state a handler works on while it runs
Work(flock, slots, grass, food, errs, n) ==
    [sheep |-> flock, slots |-> slots, grass |-> grass, food |-> food,
     errors |-> errs, created |-> n]

\* errs with what a call setSheepOnFace(_, faceIndex) adds to it
callErrors(errs, depth, slots, faceIndex, failed) ==
    errs \cup (IF failed THEN {CallerFailed} ELSE {})
         \cup (IF canSetSheepOnFace(depth, slots, faceIndex) THEN {}
               ELSE {Unchecked})

\* w after setSheepOnFace(w.sheep[k], faceIndex): a set of states
moveSheep(w, k, depth, faceIndex) ==
    {[w EXCEPT !.sheep[k] = r.sheep, !.slots = r.slots,
               !.errors = callErrors(@, depth, w.slots, faceIndex, r.failed)] :
     r \in setSheepOnFace(w.slots, w.sheep[k], faceIndex)}

\* w after "new Sheep(); setSheepOnFace(sheep, face); this.sheep.push(sheep)"
addSheep(w, depth, faceIndex) ==
    {[w EXCEPT !.sheep = Append(@, r.sheep), !.slots = r.slots,
               !.created = @ + 1,
               !.errors = callErrors(@, depth, w.slots, faceIndex, r.failed)] :
     r \in setSheepOnFace(w.slots, newSheep(w.created + 1), faceIndex)}

\* the while loop of trySpawnSheep: the face found, or Null, and the faces
\* canSetSheepOnFace was called for, in call order
RECURSIVE spawnSearch(_, _, _, _, _)
spawnSearch(depth, slots, queue, seen, examined) ==
    IF queue = <<>> THEN [face |-> Null, examined |-> examined]
    ELSE LET face == Head(queue) IN
         IF face \in seen
         THEN spawnSearch(depth, slots, Tail(queue), seen, examined)
         ELSE IF canSetSheepOnFace(depth, slots, face)
         THEN [face |-> face, examined |-> Append(examined, face)]
         ELSE spawnSearch(depth, slots,
                Tail(queue) \o SelectSeq(adjacentFaces[face],
                    LAMBDA adj : adj \notin (seen \cup {face})),
                seen \cup {face}, Append(examined, face))

\* trySpawnSheep: the states it may leave, each with its return value
trySpawnSheep(w, depth, fp) ==
    LET face == spawnSearch(depth, w.slots, <<fp>>, {}, <<>>).face
    IN IF face = Null THEN {[w |-> w, spawned |-> FALSE]}
       ELSE {[w |-> v, spawned |-> TRUE] : v \in addSheep(w, depth, face)}

\* seekBest without the canSetSheepOnFace test of the loop
RECURSIVE seekBestNearest(_, _, _, _, _, _)
seekBestNearest(depth, slots, adj, k, fp, best) ==
    IF k > Len(adj) THEN best
    ELSE seekBestNearest(depth, slots, adj, k + 1, fp,
            IF distSq(adj[k], fp) < distSq(best, fp) THEN adj[k] ELSE best)

\* the goal-seeking loop of slowTick over adj, from entry k on
RECURSIVE seekBest(_, _, _, _, _, _)
seekBest(depth, slots, adj, k, fp, best) ==
    IF k > Len(adj) THEN best
    ELSE seekBest(depth, slots, adj, k + 1, fp,
            IF /\ canSetSheepOnFace(depth, slots, adj[k])
               /\ distSq(adj[k], fp) < distSq(best, fp)
            THEN adj[k] ELSE best)

\* the random branch of slowTick for sheep k: a shuffle may put any face of
\* adj first, so the sheep goes to any face of adj that can take it
randomMove(w, k, depth) ==
    LET adj == adjacentFaces[w.sheep[k].faceIndex]
        open == {f \in Range(adj) : canSetSheepOnFace(depth, w.slots, f)}
    IN IF open = {} THEN {w}
       ELSE UNION {moveSheep(w, k, depth, f) : f \in open}

\* seekMove taking the last adjacent face that is closer than the sheep's,
\* without "bestDistSq = adjFaceDistSq"
seekMoveLastCloser(w, k, depth, fp) ==
    IF fp = Null THEN {[w EXCEPT !.errors = @ \cup {AssertFailed}]}
    ELSE LET from == w.sheep[k].faceIndex
             closer == SelectSeq(adjacentFaces[from],
                          LAMBDA f : /\ canSetSheepOnFace(depth, w.slots, f)
                                     /\ distSq(f, fp) < distSq(from, fp))
         IN IF closer # <<>> THEN moveSheep(w, k, depth, closer[Len(closer)])
            ELSE {w}

\* the goal-seeking branch of slowTick for sheep k
seekMove(w, k, depth, fp) ==
    IF fp = Null THEN {[w EXCEPT !.errors = @ \cup {AssertFailed}]}
    ELSE LET from == w.sheep[k].faceIndex
             best == seekBest(depth, w.slots, adjacentFaces[from], 1, fp, from)
         IN IF best # from THEN moveSheep(w, k, depth, best) ELSE {w}

\* forage without Math.min: "eaten = 0.005"
forageFullBite(w, k) ==
    LET f == w.sheep[k].faceIndex
    IN [w EXCEPT !.food = @ + Bite, !.grass[f] = @ - Bite]

\* forage with "this.sheepStoredFood += 0.005": the food gains a full bite
\* whatever the face had left
forageCountsBite(w, k) ==
    LET f == w.sheep[k].faceIndex
        eaten == Min2(w.grass[f], Bite)
    IN [w EXCEPT !.food = @ + Bite, !.grass[f] = @ - eaten]

\* the foraging of sheep k at the end of its loop iteration
forage(w, k) ==
    LET f == w.sheep[k].faceIndex
        eaten == Min2(w.grass[f], Bite)
    IN [w EXCEPT !.food = @ + eaten, !.grass[f] = @ - eaten]

\* sheepStep without "if (sheep.movement !== null) continue"
sheepStepAnySheep(w, k, depth, fp) ==
    IF AssertFailed \in w.errors THEN {w}
    ELSE {IF AssertFailed \in v.errors THEN v ELSE forage(v, k) :
          v \in randomMove(w, k, depth) \cup seekMove(w, k, depth, fp)}

\* sheepStep with the foraging ahead of "if (sheep.movement !== null)
\* continue": a sheep in its movement forages too
sheepStepForagesMoving(w, k, depth, fp) ==
    IF AssertFailed \in w.errors THEN {w}
    ELSE IF w.sheep[k].movement # <<>> THEN {forage(w, k)}
    ELSE {IF AssertFailed \in v.errors THEN v ELSE forage(v, k) :
          v \in randomMove(w, k, depth) \cup seekMove(w, k, depth, fp)}

\* one iteration of slowTick's loop over this.sheep
sheepStep(w, k, depth, fp) ==
    IF AssertFailed \in w.errors THEN {w}
    ELSE IF w.sheep[k].movement # <<>> THEN {w}
    ELSE {IF AssertFailed \in v.errors THEN v ELSE forage(v, k) :
          v \in randomMove(w, k, depth) \cup seekMove(w, k, depth, fp)}

\* slowTick's loop over this.sheep from sheep k on: the states it may end in
RECURSIVE sheepLoop(_, _, _, _)
sheepLoop(ws, k, depth, fp) ==
    IF \A w \in ws : k > Len(w.sheep) THEN ws
    ELSE sheepLoop(UNION {sheepStep(w, k, depth, fp) : w \in ws},
                   k + 1, depth, fp)

\* spawnStep with "this.sheepStoredFood >= 5"
spawnStepAtCost(w, depth, fp) ==
    IF AssertFailed \in w.errors \/ ~(w.food >= SpawnCost)
    THEN {[w |-> w, spawned |-> FALSE, tried |-> FALSE]}
    ELSE {[w |-> IF r.spawned THEN [r.w EXCEPT !.food = @ - SpawnCost]
                 ELSE r.w,
           spawned |-> r.spawned, tried |-> TRUE] :
          r \in trySpawnSheep(w, depth, fp)}

\* the spawn of slowTick
spawnStep(w, depth, fp) ==
    IF AssertFailed \in w.errors \/ ~(w.food > SpawnCost)
    THEN {[w |-> w, spawned |-> FALSE, tried |-> FALSE]}
    ELSE {[w |-> IF r.spawned THEN [r.w EXCEPT !.food = @ - SpawnCost]
                 ELSE r.w,
           spawned |-> r.spawned, tried |-> TRUE] :
          r \in trySpawnSheep(w, depth, fp)}

\* templeStep with "this.sheep.length > 30" on the first rung
templeStepAbove(level, n) ==
    IF level = 1 /\ n > 30 THEN 2
    ELSE IF level = 2 /\ n >= 40 THEN 3
    ELSE IF level = 3 /\ n >= 50 THEN 4
    ELSE IF level = 4 /\ n >= 60 THEN 5
    ELSE IF level = 5 /\ n >= 70 THEN 6
    ELSE IF level = 6 /\ n >= 80 THEN 7
    ELSE IF level = 7 /\ n >= 90 THEN 8
    ELSE level

\* the temple ladder of slowTick: templeLevel afterwards
templeStep(level, n) ==
    IF level = 1 /\ n >= 30 THEN 2
    ELSE IF level = 2 /\ n >= 40 THEN 3
    ELSE IF level = 3 /\ n >= 50 THEN 4
    ELSE IF level = 4 /\ n >= 60 THEN 5
    ELSE IF level = 5 /\ n >= 70 THEN 6
    ELSE IF level = 6 /\ n >= 80 THEN 7
    ELSE IF level = 7 /\ n >= 90 THEN 8
    ELSE level

\* raisedLevel without "Math.min(highestWaterLevel, this.waterLevel)"
raisedLevelUncapped(level, highestWaterLevel) ==
    IF level < -3500 THEN level + 300
    ELSE IF level < 2000 THEN level + 500
    ELSE IF level < 4000 THEN level + 1000
    ELSE IF level < 9000 THEN level + 2000
    ELSE level + 3500

\* raisedLevel with "this.waterLevel <= 20" for the second step
raisedLevelAtTwenty(level, highestWaterLevel) ==
    Min2(highestWaterLevel,
         IF level < -3500 THEN level + 300
         ELSE IF level <= 2000 THEN level + 500
         ELSE IF level < 4000 THEN level + 1000
         ELSE IF level < 9000 THEN level + 2000
         ELSE level + 3500)

\* the water level after the ratchet of tick has fired
raisedLevel(level, highestWaterLevel) ==
    Min2(highestWaterLevel,
         IF level < -3500 THEN level + 300
         ELSE IF level < 2000 THEN level + 500
         ELSE IF level < 4000 THEN level + 1000
         ELSE IF level < 9000 THEN level + 2000
         ELSE level + 3500)

\* waterRatchet with "this.waterCounter = 1" after a raise
waterRatchetCountsRaise(fp, counter, level, highestWaterLevel) ==
    IF fp = Null
    THEN [level |-> level, counter |-> counter, raised |-> FALSE]
    ELSE IF counter = WaterPeriod /\ level < highestWaterLevel
    THEN [level |-> raisedLevel(level, highestWaterLevel), counter |-> 1,
          raised |-> TRUE]
    ELSE [level |-> level, counter |-> counter + 1, raised |-> FALSE]

\* waterRatchet without "this.waterCounter = 0": the counter goes on after a
\* raise
waterRatchetKeepsCounting(fp, counter, level, highestWaterLevel) ==
    IF fp = Null
    THEN [level |-> level, counter |-> counter, raised |-> FALSE]
    ELSE IF counter = WaterPeriod /\ level < highestWaterLevel
    THEN [level |-> raisedLevel(level, highestWaterLevel),
          counter |-> counter + 1, raised |-> TRUE]
    ELSE [level |-> level, counter |-> counter + 1, raised |-> FALSE]

\* the water ratchet of tick: waterLevel and waterCounter afterwards, and
\* whether the level was raised
waterRatchet(fp, counter, level, highestWaterLevel) ==
    IF fp = Null
    THEN [level |-> level, counter |-> counter, raised |-> FALSE]
    ELSE IF counter = WaterPeriod /\ level < highestWaterLevel
    THEN [level |-> raisedLevel(level, highestWaterLevel), counter |-> 0,
          raised |-> TRUE]
    ELSE [level |-> level, counter |-> counter + 1, raised |-> FALSE]

\* deathPass sparing the sheep that are in a movement
deathPassSparesMoving(flock, depth) ==
    [k \in DOMAIN flock |->
        IF /\ faceVerticesAllWater(depth, flock[k].faceIndex)
           /\ flock[k].movement = <<>>
        THEN die(flock[k]) ELSE sheepTick(flock[k])]

\* the first loop of tick: die or tick, sheep by sheep
deathPass(flock, depth) ==
    [k \in DOMAIN flock |->
        IF faceVerticesAllWater(depth, flock[k].faceIndex)
        THEN die(flock[k]) ELSE sheepTick(flock[k])]

\* this.sheep.filter((sheep) => !sheep.isDead)
sweep(flock) == SelectSeq(flock, LAMBDA s : ~s.isDead)

-----------------------------------------------------------------------------
(* The history of flood calls *)

\* called:  flood has been called
\* level:   the argument of the last call
\* changed: its return value
\* passes:  how many calls of the current run (consecutive calls with the
\*          same level) returned true
\* settled: some earlier call of the current run returned false
\* only:    every call so far had this level
\* fromConverged: a call came before the current run and the last of them
\*          returned false; fromLevel: its level;
\* fromDepth: vertexWaterDepth when the current run started
NoFlood ==
    [called |-> FALSE, level |-> 0, changed |-> FALSE, passes |-> 0,
     settled |-> FALSE, only |-> TRUE, fromConverged |-> FALSE,
     fromLevel |-> 0, fromDepth |-> [v \in Vertices |-> 0]]

FloodRecord(edgeWaterLevel, changed) ==
    IF lastFlood.called /\ lastFlood.level = edgeWaterLevel
    THEN [lastFlood EXCEPT
            !.changed = changed,
            !.passes = IF changed THEN @ + 1 ELSE @,
            !.settled = @ \/ ~lastFlood.changed]
    ELSE [called |-> TRUE, level |-> edgeWaterLevel, changed |-> changed,
          passes |-> IF changed THEN 1 ELSE 0, settled |-> FALSE,
          only |-> ~lastFlood.called,
          fromConverged |-> lastFlood.called /\ ~lastFlood.changed,
          fromLevel |-> lastFlood.level,
          fromDepth |-> vertexWaterDepth]

-----------------------------------------------------------------------------
(* The terrain alone: flood called with any sequence of levels *)

\* heights of the generated terrains (hundredths)
Heights == {0, 200, 300}

\* edge water levels passed to flood (hundredths)
Levels == {200, 201, 300}

minHeight(hm) == SetMin({hm[v] : v \in Vertices})

InteriorVertices == {v \in Vertices : ~isEdge(v)}

\* The heightmaps generator.sample may give, as far as the model draws them:
\* any height at each interior vertex; on the boundary one height for the
\* vertices of even index and one for those of odd index.
Terrains(hs) ==
    {[v \in Vertices |->
        IF isEdge(v) THEN (IF v % 2 = 0 THEN e[1] ELSE e[2]) ELSE inner[v]] :
     e \in hs \X hs, inner \in [InteriorVertices -> hs]}

\* the constructor of TerrainGeometry: a heightmap, no water
TerrainInit(hs) ==
    /\ heightmap \in Terrains(hs)
    /\ vertexWaterDepth = [v \in Vertices |-> 0]
    /\ lastFlood = NoFlood

AppIdle ==
    /\ faceGrass = [f \in Faces |-> 0]
    /\ sheep = <<>>
    /\ faceSheepSlotFree = [f \in Faces |-> Undefined]
    /\ flockingPoint = Null
    /\ waterLevel = 0
    /\ waterCounter = 0
    /\ frame = 0
    /\ sheepStoredFood = 0
    /\ templeLevel = 1
    /\ errors = {}
    /\ created = 0
    /\ clicks = 0
    /\ rendered = 0

InitFlood ==
    /\ TerrainInit(Heights)
    /\ AppIdle
    /\ flockSize = 0
    /\ log = [op |-> "init"]

\* one call terrain.flood(edgeWaterLevel)
FloodCall(edgeWaterLevel) ==
    LET r == flood(heightmap, vertexWaterDepth, edgeWaterLevel)
    IN /\ vertexWaterDepth' = r.depth
       /\ lastFlood' = FloodRecord(edgeWaterLevel, r.changed)
       /\ log' = [op |-> "flood", before |-> vertexWaterDepth]
       /\ UNCHANGED <<heightmap, appVars, flockSize>>

NextFlood ==
    \E edgeWaterLevel \in Levels \cup {minHeight(heightmap) - 100} :
        FloodCall(edgeWaterLevel)

SpecFlood == InitFlood /\ [][NextFlood]_vars

-----------------------------------------------------------------------------
(* The game: frames and clicks *)

\* frames rendered in a run of the model
MaxFrame == 8

\* raycast calls in a run of the model
MaxClicks == 1

\* the faces the model clicks on: those of the first row of quads
ClickFaces == {f \in Faces : rowOf(f \div 2) = 0}

\* heights (hundredths) of the terrains the game is run on
GameHeights == {200, 300}

\* the water level (hundredths) the runs of the model start with
GameLevels == {200}

\* the grass generator.fertility gives every face (thousandths)
GrassLevels == {8}

\* A new game: the constructors of App and TerrainGeometry
InitNew ==
    /\ TerrainInit(GameHeights)
    /\ faceGrass \in {[f \in Faces |-> g] : g \in GrassLevels}
    /\ sheep = <<>>
    /\ faceSheepSlotFree = [f \in Faces |-> Undefined]
    /\ flockingPoint = Null
    /\ waterLevel \in GameLevels
    /\ waterCounter = 0
    /\ frame = 0
    /\ sheepStoredFood = 0
    /\ templeLevel = 1
    /\ errors = {}
    /\ created = 0
    /\ clicks = 0
    /\ rendered = 0
    /\ flockSize = 0
    /\ log = [op |-> "init"]

\* the tiles of the initial flock: the face, its adjacent faces, and theirs
flockTiles(fp) ==
    {fp} \cup Range(adjacentFaces[fp])
         \cup UNION {Range(adjacentFaces[t]) : t \in Range(adjacentFaces[fp])}

\* vertexWaterDepth once flood(level) returns false, from depth on
RECURSIVE settledDepth(_, _, _)
settledDepth(hm, depth, level) ==
    LET r == flood(hm, depth, level)
    IN IF r.changed THEN settledDepth(hm, r.depth, level) ELSE depth

\* the face of tiles nearest to fp, the lowest index among equals
nearestTile(tiles, fp) ==
    CHOOSE t \in tiles :
        \A u \in tiles :
            \/ distSq(t, fp) < distSq(u, fp)
            \/ distSq(t, fp) = distSq(u, fp) /\ t <= u

\* A flock at rest around fp, where goal-seeking has led it: sheep after
\* sheep on the tile nearest to fp that can take it, in its lowest free slot,
\* every movement ended
\* w with one more sheep, at rest on faceIndex in the lowest free slot
restSheep(w, depth, faceIndex) ==
    LET rs == addSheep(w, depth, faceIndex)
        first == CHOOSE r \in rs :
                    \A q \in rs : r.sheep[Len(r.sheep)].slot
                                    <= q.sheep[Len(q.sheep)].slot
    IN [first EXCEPT !.sheep[Len(first.sheep)].movement = <<>>]

RECURSIVE restingFlock(_, _, _, _)
restingFlock(w, i, depth, fp) ==
    IF i > InitialFlock THEN w
    ELSE IF \A t \in flockTiles(fp) : ~canSetSheepOnFace(depth, w.slots, t)
    THEN w
    ELSE restingFlock(
            restSheep(w, depth,
                nearestTile({t \in flockTiles(fp) :
                                canSetSheepOnFace(depth, w.slots, t)}, fp)),
            i + 1, depth, fp)

\* the frame count and the stored food (thousandths) of the games in progress
LateFrame == 4 * WaterPeriod
LateFood == {4990, 4996}

\* A game in progress: the water has settled at the water level, the first
\* click put the flock around the flocking point long ago, the flock is at
\* rest, its stored food is close to the price of a sheep and the next
\* raise of the water level is 2 fast ticks away; faceGrass is the grass the
\* flock has left on the faces.
InitLate ==
    /\ heightmap \in Terrains(GameHeights)
    /\ waterLevel \in GameLevels
    /\ vertexWaterDepth =
          settledDepth(heightmap, [v \in Vertices |-> 0], waterLevel)
    /\ lastFlood = [NoFlood EXCEPT !.called = TRUE, !.level = waterLevel,
                                   !.settled = TRUE, !.only = FALSE,
                                   !.fromDepth = vertexWaterDepth]
    /\ faceGrass \in {[f \in Faces |-> g] : g \in GrassLevels}
    /\ flockingPoint \in
          {f \in ClickFaces : ~faceVerticesAllWater(vertexWaterDepth, f)}
    /\ LET w == restingFlock(
                   Work(<<>>, [f \in Faces |-> Undefined], faceGrass, 0, {}, 0),
                   1, vertexWaterDepth, flockingPoint)
       IN /\ sheep = w.sheep
          /\ faceSheepSlotFree = w.slots
          /\ created = w.created
    /\ sheepStoredFood \in LateFood
    /\ waterCounter = WaterPeriod - 4
    /\ frame = LateFrame
    /\ templeLevel = 1
    /\ errors = {}
    /\ clicks = 0
    /\ rendered = 0
    /\ flockSize = 0
    /\ log = [op |-> "init"]

Init == InitNew \/ InitLate

\* slowTick after its flood call: the states it may end in, each with the
\* return value of trySpawnSheep and templeLevel
slowTick(w, depth, fp, level) ==
    UNION {{[w |-> r.w, spawned |-> r.spawned, tried |-> r.tried,
             foraged |-> v.food,
             templeLevel |-> IF AssertFailed \in r.w.errors THEN level
                             ELSE templeStep(level, Len(r.w.sheep))] :
            r \in spawnStep(v, depth, fp)} :
           v \in sheepLoop({w}, 1, depth, fp)}

\* render(): tick(), then frame++.  slow stands for "this.frame % 4 == 0";
\* filtered says that tick() has its filter of dead sheep
renderWith(slow, filtered) ==
    /\ rendered < MaxFrame
    /\ AssertFailed \notin errors
    /\ rendered' = rendered + 1
    /\ LET marked == deathPass(sheep, vertexWaterDepth)
           live == IF filtered THEN sweep(marked) ELSE marked
           highestWaterLevel == heightmap[highestVertexOf(heightmap)] + 100
           ratchet == waterRatchet(flockingPoint, waterCounter, waterLevel,
                                   highestWaterLevel)
           raise == ratchet.raised
           level == ratchet.level
           fl == IF slow THEN flood(heightmap, vertexWaterDepth, level)
                 ELSE [changed |-> FALSE, depth |-> vertexWaterDepth]
           w0 == Work(live, faceSheepSlotFree, faceGrass, sheepStoredFood,
                      errors, created)
       IN /\ waterLevel' = level
          /\ waterCounter' = ratchet.counter
          /\ vertexWaterDepth' = fl.depth
          /\ lastFlood' = IF slow THEN FloodRecord(level, fl.changed)
                          ELSE lastFlood
          /\ \E r \in (IF slow
                       THEN slowTick(w0, fl.depth, flockingPoint, templeLevel)
                       ELSE {[w |-> w0, spawned |-> FALSE, tried |-> FALSE,
                              foraged |-> sheepStoredFood,
                              templeLevel |-> templeLevel]}) :
                /\ sheep' = r.w.sheep
                /\ faceSheepSlotFree' = r.w.slots
                /\ faceGrass' = r.w.grass
                /\ sheepStoredFood' = r.w.food
                /\ errors' = r.w.errors
                /\ created' = r.w.created
                /\ templeLevel' = r.templeLevel
                /\ frame' = IF AssertFailed \in r.w.errors THEN frame
                            ELSE frame + 1
                /\ log' = [op |-> "tick", slow |-> slow, raised |-> raise,
                           died |-> {marked[k].id : k \in
                                       {j \in DOMAIN marked : marked[j].isDead}},
                           foraged |-> r.foraged, tried |-> r.tried,
                           spawned |-> r.spawned,
                           before |-> Snapshot]
    /\ UNCHANGED <<heightmap, flockingPoint, flockSize, clicks>>

\* render() with "this.frame++" ahead of "this.tick()"
RenderCountsFirst == renderWith((frame + 1) % 4 = 0, TRUE)

\* render() without the filter of tick(): dead sheep stay in this.sheep
RenderKeepsDead == renderWith(frame % 4 = 0, FALSE)

\* render(): tick(), with slowTick on every 4th frame, then frame++
Render == renderWith(frame % 4 = 0, TRUE)

\* the loop "for (let i = 0; i < 20; i++)" of raycast from round i on, with
\* n rounds for the 20
RECURSIVE flockRounds(_, _, _, _, _)
flockRounds(n, ws, i, depth, tiles) ==
    IF i > n THEN ws
    ELSE flockRounds(n,
            UNION {LET open == {t \in tiles :
                                  canSetSheepOnFace(depth, w.slots, t)}
                   IN IF open = {} THEN {w}
                      ELSE UNION {addSheep(w, depth, t) : t \in open} : w \in ws},
            i + 1, depth, tiles)

\* the loop "for (let i = 0; i < 20; i++)" of raycast from round i on
flockLoop(ws, i, depth, tiles) ==
    flockRounds(InitialFlock, ws, i, depth, tiles)

\* raycastReturns without the test of faceVerticesAllWater: only an
\* intersection without a face index is ignored
raycastReturnsWithoutFace(depth, faceIndex) == faceIndex = Null

\* the two early returns of raycast: the intersection has no face index
\* (faceIndex = Null), or the face tests all water
raycastReturns(depth, faceIndex) ==
    faceIndex = Null \/ faceVerticesAllWater(depth, faceIndex)

\* raycast(intersection) with intersection.faceIndex = faceIndex, Null for
\* an intersection without a face index.  first stands for
\* "this.flockingPoint === null" and point for the face of
\* "this.flockingPoint = faceIndex" ahead of the initial flock.  flagSet in
\* the log: flagSprite.position.set was called
clickWith(faceIndex, first, point) ==
    /\ clicks < MaxClicks
    /\ clicks' = clicks + 1
    /\ IF raycastReturns(vertexWaterDepth, faceIndex)
       THEN /\ log' = [op |-> "click", face |-> faceIndex, accepted |-> FALSE,
                       flagSet |-> FALSE,
                       before |-> Snapshot]
            /\ UNCHANGED <<sheep, faceSheepSlotFree, flockingPoint, errors,
                           created>>
       ELSE /\ log' = [op |-> "click", face |-> faceIndex, accepted |-> TRUE,
                       flagSet |-> TRUE,
                       before |-> Snapshot]
            /\ IF first
               THEN /\ flockingPoint' = point
                    /\ \E w \in flockLoop(
                          {Work(sheep, faceSheepSlotFree, faceGrass,
                                sheepStoredFood, errors, created)},
                          1, vertexWaterDepth, flockTiles(faceIndex)) :
                         /\ sheep' = w.sheep
                         /\ faceSheepSlotFree' = w.slots
                         /\ errors' = w.errors
                         /\ created' = w.created
               ELSE /\ flockingPoint' = faceIndex
                    /\ UNCHANGED <<sheep, faceSheepSlotFree, errors, created>>
    /\ UNCHANGED <<heightmap, vertexWaterDepth, faceGrass, waterLevel,
                   waterCounter, frame, sheepStoredFood, templeLevel,
                   flockSize, rendered, lastFlood>>

\* raycast without "this.flockingPoint = faceIndex" ahead of the initial
\* flock: the first click spawns the flock and leaves the flocking point null
ClickKeepsNull(faceIndex) == clickWith(faceIndex, flockingPoint = Null, Null)

\* raycast without the test "this.flockingPoint === null": every click
\* spawns a flock
ClickSpawnsAgain(faceIndex) == clickWith(faceIndex, TRUE, faceIndex)

\* raycast(intersection) with intersection.faceIndex = faceIndex
Click(faceIndex) == clickWith(faceIndex, flockingPoint = Null, faceIndex)

Next ==
    \/ Render
    \/ \E faceIndex \in ClickFaces \cup {Null} : Click(faceIndex)

Spec == Init /\ [][Next]_vars

-----------------------------------------------------------------------------
(* The temple ladder alone.  templeStep reads nothing of the flock but its *)
(* size, and the thresholds 30..90 need more sheep than a small mesh holds: *)
(* here the flock is its size, flockSize, which sheep being spawned and    *)
(* dying change to any value between two slow ticks.                       *)

\* the largest flock of the temple runs
MaxFlock == 95

InitTemple ==
    /\ heightmap = [v \in Vertices |-> 0]
    /\ vertexWaterDepth = [v \in Vertices |-> 0]
    /\ lastFlood = NoFlood
    /\ AppIdle
    /\ flockSize \in 0..MaxFlock
    /\ log = [op |-> "init"]

\* sheep are created and die: sheep.length becomes n
FlockChange(n) ==
    /\ flockSize' = n
    /\ log' = [op |-> "flock"]
    /\ UNCHANGED <<heightmap, vertexWaterDepth, lastFlood, appVars>>

\* the temple ladder of one slowTick
TempleTick ==
    /\ templeLevel' = templeStep(templeLevel, flockSize)
    /\ log' = [op |-> "temple"]
    /\ UNCHANGED <<heightmap, vertexWaterDepth, lastFlood, flockSize,
                   faceGrass, sheep, faceSheepSlotFree, flockingPoint,
                   waterLevel, waterCounter, frame, sheepStoredFood, errors,
                   created, clicks, rendered>>

NextTemple ==
    \/ \E n \in 0..MaxFlock : FlockChange(n)
    \/ TempleTick

SpecTemple == InitTemple /\ [][NextTemple]_vars

-----------------------------------------------------------------------------
(* The water of the game alone: the ratchet of tick and the flood call of   *)
(* slowTick, over the 600 fast ticks between two raises.  The flock is left *)
(* out: neither the ratchet nor flood reads anything of the sheep.          *)

\* heights (hundredths) of the terrains the water is run on
WaterHeights == {300, 13000}

\* initialWaterLevel (hundredths) of the water runs
WaterStarts == {-3800, 5000}

\* fast ticks the water runs may take before the click
IdleFrames == 4

\* the faces the water runs click on: those of the last quad of the first row
WaterClickFaces == {f \in ClickFaces : colOf(f \div 2) = resolution - 1}

\* heightmap[highestVertex] + 1
highestWaterLevelOf(hm) == hm[highestVertexOf(hm)] + 100

\* log of the water runs: since counts the fast ticks that have ended since
\* the flocking point was set or the level was last raised, before the level
\* of the step before
WaterLog(op, raised, since, before) ==
    [op |-> op, raised |-> raised, since |-> since, before |-> before]

InitWater ==
    /\ TerrainInit(WaterHeights)
    /\ waterLevel \in {l \in WaterStarts : l <= highestWaterLevelOf(heightmap)}
    /\ faceGrass = [f \in Faces |-> 0]
    /\ sheep = <<>>
    /\ faceSheepSlotFree = [f \in Faces |-> Undefined]
    /\ flockingPoint = Null
    /\ waterCounter = 0
    /\ frame = 0
    /\ sheepStoredFood = 0
    /\ templeLevel = 1
    /\ errors = {}
    /\ created = 0
    /\ clicks = 0
    /\ rendered = 0
    /\ flockSize = 0
    /\ log = WaterLog("init", FALSE, 0, waterLevel)

\* tick() and "this.frame++" of render(), with no sheep
WaterTick ==
    /\ waterCounter <= WaterPeriod
    /\ flockingPoint = Null => frame < IdleFrames
    /\ LET ratchet == waterRatchet(flockingPoint, waterCounter, waterLevel,
                                   highestWaterLevelOf(heightmap))
           slow == frame % 4 = 0
           fl == IF slow THEN flood(heightmap, vertexWaterDepth, ratchet.level)
                 ELSE [changed |-> FALSE, depth |-> vertexWaterDepth]
       IN /\ waterLevel' = ratchet.level
          /\ waterCounter' = ratchet.counter
          /\ vertexWaterDepth' = fl.depth
          /\ lastFlood' = IF slow THEN FloodRecord(ratchet.level, fl.changed)
                          ELSE lastFlood
          /\ log' = WaterLog("tick", ratchet.raised,
                             IF flockingPoint = Null \/ ratchet.raised THEN 0
                             ELSE log.since + 1,
                             waterLevel)
    /\ frame' = frame + 1
    /\ UNCHANGED <<heightmap, faceGrass, sheep, faceSheepSlotFree,
                   flockingPoint, sheepStoredFood, templeLevel, flockSize,
                   errors, created, clicks, rendered>>

\* raycast(intersection) on a map without a flocking point, the flock left out
WaterClick(faceIndex) ==
    /\ flockingPoint = Null
    /\ ~faceVerticesAllWater(vertexWaterDepth, faceIndex)
    /\ flockingPoint' = faceIndex
    /\ clicks' = clicks + 1
    /\ log' = WaterLog("click", FALSE, 0, waterLevel)
    /\ UNCHANGED <<heightmap, vertexWaterDepth, faceGrass, sheep,
                   faceSheepSlotFree, waterLevel, waterCounter, frame,
                   sheepStoredFood, templeLevel, flockSize, errors, created,
                   rendered, lastFlood>>

NextWater ==
    \/ WaterTick
    \/ \E faceIndex \in WaterClickFaces : WaterClick(faceIndex)

SpecWater == InitWater /\ [][NextWater]_vars

-----------------------------------------------------------------------------
(* The mesh alone, for every resolution up to MaxResolution: the constructor *)
(* and the queries adjacentFaces and xyAtPointIndex.  log holds the last     *)
(* call: its resolution r, its argument and its result.                     *)

\* the largest resolution a mesh is built for
MaxResolution == 4

MeshLog(op, r, arg, result) ==
    [op |-> op, r |-> r, arg |-> arg, result |-> result]

InitMesh ==
    /\ heightmap = [v \in Vertices |-> 0]
    /\ vertexWaterDepth = [v \in Vertices |-> 0]
    /\ lastFlood = NoFlood
    /\ AppIdle
    /\ flockSize = 0
    /\ log = MeshLog("init", 0, 0, 0)

\* new TerrainGeometry(width, r, ...): the mesh part of the constructor
NewTerrain(r) ==
    /\ log.op = "init"
    /\ log' = MeshLog("new", r, r,
                      [numUniqueVertices |-> (r + 1) * (r + 1),
                       faces |-> facesAt(r),
                       faceToVertices |-> faceToVerticesAt(r)])
    /\ UNCHANGED <<heightmap, vertexWaterDepth, lastFlood, flockSize, appVars>>

\* terrain.adjacentFaces(faceIdx)
AdjacentFacesCall(faceIdx) ==
    /\ log.op # "init"
    /\ faceIdx \in Range(facesAt(log.r))
    /\ log' = MeshLog("adjacentFaces", log.r, faceIdx,
                      adjacentFacesAt(log.r, faceIdx))
    /\ UNCHANGED <<heightmap, vertexWaterDepth, lastFlood, flockSize, appVars>>

\* terrain.xyAtPointIndex(index)
XyAtPointIndexCall(index) ==
    /\ log.op # "init"
    /\ index < (log.r + 1) * (log.r + 1)
    /\ log' = MeshLog("xyAtPointIndex", log.r, index,
                      xyAtPointIndexAt(log.r, index))
    /\ UNCHANGED <<heightmap, vertexWaterDepth, lastFlood, flockSize, appVars>>

NextMesh ==
    \/ \E r \in 1..MaxResolution : NewTerrain(r)
    \/ \E faceIdx \in 0 .. (2 * (MaxResolution + 1) * (MaxResolution + 1)) :
          AdjacentFacesCall(faceIdx)
    \/ \E index \in 0 .. ((MaxResolution + 1) * (MaxResolution + 1)) :
          XyAtPointIndexCall(index)

SpecMesh == InitMesh /\ [][NextMesh]_vars

-----------------------------------------------------------------------------
(* One sheep alone: Sheep.startMovement and Sheep.tick, a movement run from  *)
(* its start to its end.  log.ticks counts the calls of tick since the last *)
(* startMovement.                                                           *)

\* the calls of Sheep.tick a run makes after a startMovement
MaxMoveTicks == 12

InitMove ==
    /\ heightmap = [v \in Vertices |-> 0]
    /\ vertexWaterDepth = [v \in Vertices |-> 0]
    /\ lastFlood = NoFlood
    /\ faceGrass = [f \in Faces |-> 0]
    /\ \E f \in Faces : \E slot \in 0..2 :
          sheep = <<startMovement(newSheep(1), f, slot)>>
    /\ faceSheepSlotFree = [f \in Faces |-> Undefined]
    /\ flockingPoint = Null
    /\ waterLevel = 0
    /\ waterCounter = 0
    /\ frame = 0
    /\ sheepStoredFood = 0
    /\ templeLevel = 1
    /\ errors = {}
    /\ created = 1
    /\ clicks = 0
    /\ rendered = 0
    /\ flockSize = 0
    /\ log = [op |-> "startMovement", ticks |-> 0]

\* sheep.tick() of a fast tick
SheepTickCall ==
    /\ log.ticks < MaxMoveTicks
    /\ sheep' = <<sheepTick(sheep[1])>>
    /\ log' = [op |-> "tick", ticks |-> log.ticks + 1]
    /\ UNCHANGED <<heightmap, vertexWaterDepth, lastFlood, flockSize,
                   faceGrass, faceSheepSlotFree, flockingPoint, waterLevel,
                   waterCounter, frame, sheepStoredFood, templeLevel, errors,
                   created, clicks, rendered>>

\* sheep.startMovement(towardsFaceIndex, slot, _) of a sheep at rest
StartMovementCall(towardsFaceIndex, slot) ==
    /\ sheep[1].movement = <<>>
    /\ sheep' = <<startMovement(sheep[1], towardsFaceIndex, slot)>>
    /\ log' = [op |-> "startMovement", ticks |-> 0]
    /\ UNCHANGED <<heightmap, vertexWaterDepth, lastFlood, flockSize,
                   faceGrass, faceSheepSlotFree, flockingPoint, waterLevel,
                   waterCounter, frame, sheepStoredFood, templeLevel, errors,
                   created, clicks, rendered>>

NextMove ==
    \/ SheepTickCall
    \/ \E f \in Faces : \E slot \in 0..2 : StartMovementCall(f, slot)

SpecMove == InitMove /\ [][NextMove]_vars

-----------------------------------------------------------------------------
(* trySpawnSheep alone, called once in a game in progress: the water settled *)
(* at its level, some faces full of sheep, the others empty.                *)

\* the water levels (hundredths) of the games trySpawnSheep is called in
SpawnLevels == {200, 300}

\* the flock that fills the faces of the sequence fs from its k-th face on,
\* 3 sheep at rest on each, the first of them with id n + 1
RECURSIVE fullFlock(_, _, _)
fullFlock(fs, k, n) ==
    IF k > Len(fs) THEN <<>>
    ELSE [i \in 1..3 |->
            [id |-> n + i, faceIndex |-> fs[k], slot |-> i - 1,
             movement |-> <<>>, isDead |-> FALSE]]
         \o fullFlock(fs, k + 1, n + 3)

InitSpawn ==
    /\ heightmap \in Terrains(GameHeights)
    /\ waterLevel \in SpawnLevels
    /\ vertexWaterDepth =
          settledDepth(heightmap, [v \in Vertices |-> 0], waterLevel)
    /\ lastFlood = [NoFlood EXCEPT !.called = TRUE, !.level = waterLevel,
                                   !.settled = TRUE, !.only = FALSE,
                                   !.fromDepth = vertexWaterDepth]
    /\ faceGrass = [f \in Faces |-> 0]
    /\ flockingPoint \in ClickFaces
    /\ \E full \in SUBSET {f \in Faces :
                              ~faceVerticesAllWater(vertexWaterDepth, f)} :
          /\ sheep = fullFlock(SelectSeq(faces, LAMBDA f : f \in full), 1, 0)
          /\ faceSheepSlotFree =
                [f \in Faces |-> IF f \in full THEN <<FALSE, FALSE, FALSE>>
                                 ELSE Undefined]
    /\ created = Len(sheep)
    /\ sheepStoredFood = SpawnCost + Bite
    /\ waterCounter = 0
    /\ frame = LateFrame
    /\ templeLevel = 1
    /\ errors = {}
    /\ clicks = 1
    /\ rendered = 0
    /\ flockSize = 0
    /\ log = [op |-> "init"]

\* "if (this.sheepStoredFood > 5) { if (this.trySpawnSheep()) ... }" of
\* slowTick; log.examined: the faces the search has examined, in order
SpawnCall ==
    /\ log.op = "init"
    /\ \E r \in spawnStep(Work(sheep, faceSheepSlotFree, faceGrass,
                                sheepStoredFood, errors, created),
                           vertexWaterDepth, flockingPoint) :
          /\ sheep' = r.w.sheep
          /\ faceSheepSlotFree' = r.w.slots
          /\ sheepStoredFood' = r.w.food
          /\ errors' = r.w.errors
          /\ created' = r.w.created
          /\ log' = [op |-> "trySpawnSheep", spawned |-> r.spawned,
                     examined |-> spawnSearch(vertexWaterDepth,
                                     faceSheepSlotFree, <<flockingPoint>>,
                                     {}, <<>>).examined]
    /\ UNCHANGED <<heightmap, vertexWaterDepth, lastFlood, faceGrass,
                   flockingPoint, waterLevel, waterCounter, frame,
                   templeLevel, clicks, rendered, flockSize>>

\* the slow tick goes on after the spawn: its temple ladder
SpawnDone ==
    /\ log.op = "trySpawnSheep"
    /\ templeLevel' = templeStep(templeLevel, Len(sheep))
    /\ log' = [log EXCEPT !.op = "slowTick done"]
    /\ UNCHANGED <<heightmap, vertexWaterDepth, lastFlood, faceGrass, sheep,
                   faceSheepSlotFree, flockingPoint, waterLevel, waterCounter,
                   frame, sheepStoredFood, errors, created, clicks, rendered,
                   flockSize>>

NextSpawn == SpawnCall \/ SpawnDone

SpecSpawn == InitSpawn /\ [][NextSpawn]_vars

-----------------------------------------------------------------------------
(* The goal-seeking branch of slowTick alone, taken once by one resting     *)
(* sheep of a game in progress.                                             *)

\* the loop body of slowTick for sheep k when Math.random() >= 0.005
SeekCall(k) ==
    /\ log.op = "init"
    /\ \E v \in seekMove(Work(sheep, faceSheepSlotFree, faceGrass,
                               sheepStoredFood, errors, created),
                          k, vertexWaterDepth, flockingPoint) :
          LET w == forage(v, k)
          IN /\ sheep' = w.sheep
             /\ faceSheepSlotFree' = w.slots
             /\ faceGrass' = w.grass
             /\ sheepStoredFood' = w.food
             /\ errors' = w.errors
             /\ created' = w.created
             /\ log' = [op |-> "seek", k |-> k,
                        from |-> sheep[k].faceIndex]
    /\ UNCHANGED <<heightmap, vertexWaterDepth, lastFlood, flockingPoint,
                   waterLevel, waterCounter, frame, templeLevel, clicks,
                   rendered, flockSize>>

NextSeek == \E k \in DOMAIN sheep : SeekCall(k)

SpecSeek == InitSpawn /\ [][NextSeek]_vars

-----------------------------------------------------------------------------
(* The colour buffer: setupVertices and setHighlightedFace.  log holds the  *)
(* mesh's highlightedFace and its colors and positions attributes, one      *)
(* entry per buffer vertex.  A colour is <<r, g, b>> with the channels of   *)
(* the hex code doubled, so that multiplyScalar(1.5) gives integers.        *)

\* the colours of colorMap, as the channels of their hex codes
White == <<204, 204, 204>>
Brown == <<110, 95, 63>>
Sage == <<193, 204, 143>>
Green == <<94, 156, 72>>
DarkGreen == <<60, 98, 45>>
LightBlue == <<62, 83, 142>>
LightishBlue == <<50, 67, 113>>
DarkishBlue == <<39, 52, 89>>

\* colorMap of index.ts (heights and depths in hundredths, grass in
\* thousandths)
colorMap(height, grassAmount, waterDepth) ==
    IF waterDepth <= 0
    THEN IF height > 12000 THEN White
         ELSE IF height > 3000 THEN Brown
         ELSE IF grassAmount <= 50 THEN Sage
         ELSE IF grassAmount < 500 THEN Green
         ELSE DarkGreen
    ELSE IF waterDepth < 4000 THEN LightBlue
         ELSE IF waterDepth < 9000 THEN LightishBlue
         ELSE DarkishBlue

\* color.multiplyScalar(n / 2) of a colour of colorMap
scaled(color, n) == [i \in 1..3 |-> n * color[i]]

\* faceWaterDepth of getFaceColor with the deepest vertex in both colouring
\* modes
faceWaterDepthDeepest(hm, depth, faceIdx) ==
    LET a == faceToVertices[faceIdx][1]
        b == faceToVertices[faceIdx][2]
        c == faceToVertices[faceIdx][3]
    IN Max2(depth[a], Max2(depth[b], depth[c]))

\* the local faceWaterDepth of getFaceColor(faceIdx)
faceWaterDepth(hm, depth, faceIdx) ==
    LET a == faceToVertices[faceIdx][1]
        b == faceToVertices[faceIdx][2]
        c == faceToVertices[faceIdx][3]
        pATotalHeight == hm[a] + depth[a]
        pBTotalHeight == hm[b] + depth[b]
        pCTotalHeight == hm[c] + depth[c]
        maxTotalHeight ==
            Max2(pATotalHeight, Max2(pBTotalHeight, pCTotalHeight))
    IN IF depth[a] > 0 /\ depth[b] > 0 /\ depth[c] > 0
       THEN Max2(depth[a], Max2(depth[b], depth[c]))
       ELSE depth[IF maxTotalHeight = pATotalHeight THEN a
                  ELSE IF maxTotalHeight = pBTotalHeight THEN b ELSE c]

\* getFaceColor(faceIdx) with this.highlightedFace = highlighted
getFaceColor(hm, depth, grass, highlighted, faceIdx) ==
    LET a == faceToVertices[faceIdx][1]
        b == faceToVertices[faceIdx][2]
        c == faceToVertices[faceIdx][3]
        color == colorMap(Max2(hm[a], Max2(hm[b], hm[c])), grass[faceIdx],
                          faceWaterDepth(hm, depth, faceIdx))
    IN IF faceIdx = highlighted THEN scaled(color, 3) ELSE scaled(color, 2)

\* the entries of the position and colour attributes
bufferEntries == 0 .. ((numUniqueVertices * 2 + 1) * 3 - 1)

\* setFaceColor(color, faceIdx)
setFaceColor(colors, color, faceIdx) ==
    [e \in DOMAIN colors |->
        IF e \in {faceIdx * 3 + i : i \in 0..2} THEN color ELSE colors[e]]

\* setHighlightedFace without the repaint of the old highlighted face
setHighlightedFaceLeavesOld(mesh, hm, depth, grass, newHighlightedFace) ==
    [mesh EXCEPT
       !.highlightedFace = newHighlightedFace,
       !.colors = setFaceColor(mesh.colors,
                     getFaceColor(hm, depth, grass, newHighlightedFace,
                                  newHighlightedFace),
                     newHighlightedFace)]

\* setHighlightedFace(newHighlightedFace) on mesh = [highlightedFace,
\* colors, positions]
setHighlightedFace(mesh, hm, depth, grass, newHighlightedFace) ==
    LET oldHighlightedFace == mesh.highlightedFace
        colors1 ==
            IF oldHighlightedFace # Null
            THEN setFaceColor(mesh.colors,
                     getFaceColor(hm, depth, grass, newHighlightedFace,
                                  oldHighlightedFace),
                     oldHighlightedFace)
            ELSE mesh.colors
    IN [mesh EXCEPT
          !.highlightedFace = newHighlightedFace,
          !.colors = setFaceColor(colors1,
                        getFaceColor(hm, depth, grass, newHighlightedFace,
                                     newHighlightedFace),
                        newHighlightedFace)]

\* setupVertices(): every face's setFace
setupVertices(mesh, hm, depth, grass) ==
    [mesh EXCEPT
       !.colors = [e \in bufferEntries |->
                     IF (e \div 3) \in Faces
                     THEN getFaceColor(hm, depth, grass, mesh.highlightedFace,
                                       e \div 3)
                     ELSE mesh.colors[e]],
       !.positions = [e \in bufferEntries |->
                        IF (e \div 3) \in Faces
                        THEN LET v == faceToVertices[e \div 3][(e % 3) + 1]
                             IN <<xyAtPointIndex(v), hm[v] + depth[v]>>
                        ELSE mesh.positions[e]]]

\* the grass (thousandths) of the painted terrains
PaintGrass == {0, 600}

\* the mesh after the constructor: zeroed attributes, no highlighted face
newMesh ==
    [highlightedFace |-> Null,
     colors |-> [e \in bufferEntries |-> <<0, 0, 0>>],
     positions |-> [e \in bufferEntries |-> <<<<0, 0>>, 0>>]]

ColorLog(op, old, mesh) ==
    [op |-> op, old |-> old, highlightedFace |-> mesh.highlightedFace,
     colors |-> mesh.colors, positions |-> mesh.positions]

\* a game after a slow tick: water settled, attributes set up
InitColor ==
    /\ heightmap \in Terrains(GameHeights)
    /\ waterLevel \in SpawnLevels
    /\ vertexWaterDepth =
          settledDepth(heightmap, [v \in Vertices |-> 0], waterLevel)
    /\ lastFlood = [NoFlood EXCEPT !.called = TRUE, !.level = waterLevel,
                                   !.settled = TRUE, !.only = FALSE,
                                   !.fromDepth = vertexWaterDepth]
    /\ faceGrass \in {[f \in Faces |-> g] : g \in PaintGrass}
    /\ sheep = <<>>
    /\ faceSheepSlotFree = [f \in Faces |-> Undefined]
    /\ flockingPoint = Null
    /\ waterCounter = 0
    /\ frame = 1
    /\ sheepStoredFood = 0
    /\ templeLevel = 1
    /\ errors = {}
    /\ created = 0
    /\ clicks = 0
    /\ rendered = 1
    /\ flockSize = 0
    /\ log = ColorLog("setupVertices", Null,
                      setupVertices(newMesh, heightmap, vertexWaterDepth,
                                    faceGrass))

\* raycastHover: terrain.setHighlightedFace(faceIndex)
SetHighlightedFaceCall(faceIndex) ==
    /\ log' = ColorLog("setHighlightedFace", log.highlightedFace,
                       setHighlightedFace(log, heightmap, vertexWaterDepth,
                                          faceGrass, faceIndex))
    /\ UNCHANGED <<heightmap, vertexWaterDepth, lastFlood, flockSize, appVars>>

\* a slow tick in which the grass of face f is eaten, ending with
\* setupVertices
GrazedSetupVertices(f) ==
    /\ faceGrass[f] > 0
    /\ faceGrass' = [faceGrass EXCEPT ![f] = 0]
    /\ log' = ColorLog("setupVertices", log.highlightedFace,
                       setupVertices(log, heightmap, vertexWaterDepth,
                                     faceGrass'))
    /\ UNCHANGED <<heightmap, vertexWaterDepth, lastFlood, flockSize, sheep,
                   faceSheepSlotFree, flockingPoint, waterLevel, waterCounter,
                   frame, sheepStoredFood, templeLevel, errors, created,
                   clicks, rendered>>

NextColor ==
    \/ \E faceIndex \in Faces : SetHighlightedFaceCall(faceIndex)
    \/ \E f \in ClickFaces : GrazedSetupVertices(f)

SpecColor == InitColor /\ [][NextColor]_vars

-----------------------------------------------------------------------------
(* The flood on a mesh of resolution 3, which has 4 interior vertices: the *)
(* water has to pass from one interior vertex to another.  The level never *)
(* falls from one call to the next.                                        *)

BasinResolution == 3

BasinVertices == 0 .. ((BasinResolution + 1) * (BasinResolution + 1) - 1)

\* isEdge of flood for this mesh
basinEdge(i) ==
    \/ rowAt(BasinResolution, i) = 0
    \/ colAt(BasinResolution, i) = 0
    \/ rowAt(BasinResolution, i) = BasinResolution
    \/ colAt(BasinResolution, i) = BasinResolution

BasinInterior == {v \in BasinVertices : ~basinEdge(v)}

\* the j visited by flood's two inner loops for vertex i, in visiting order
basinNeighbours ==
    LET v2f == vertexToFacesAt(BasinResolution)
        f2v == faceToVerticesAt(BasinResolution)
    IN [i \in BasinVertices |->
           SelectSeq(Flatten([k \in DOMAIN v2f[i] |-> f2v[v2f[i][k]]]),
                     LAMBDA j : j # i)]

\* the spreading loop without the test "this.vertexWaterDepth[j] > 0": a
\* dry neighbour that stands higher passes its height on as a water surface
RECURSIVE basinSpreadFromDry(_, _, _, _, _)
basinSpreadFromDry(hm, depth, i, k, s) ==
    IF k > Len(basinNeighbours[i]) THEN s
    ELSE LET j == basinNeighbours[i][k]
         IN basinSpreadFromDry(hm, depth, i, k + 1,
                IF hm[j] + depth[j] > hm[i] + s
                THEN Max2(s, hm[j] + depth[j] - hm[i])
                ELSE s)

\* the spreading loop of flood for an interior vertex i, from neighbour k on
RECURSIVE basinSpread(_, _, _, _, _)
basinSpread(hm, depth, i, k, s) ==
    IF k > Len(basinNeighbours[i]) THEN s
    ELSE LET j == basinNeighbours[i][k]
         IN basinSpread(hm, depth, i, k + 1,
                IF depth[j] > 0 /\ hm[j] + depth[j] > hm[i] + s
                THEN Max2(s, hm[j] + depth[j] - hm[i])
                ELSE s)

\* flood(edgeWaterLevel) on this mesh: the return value and vertexWaterDepth
\* afterwards
basinFlood(hm, depth, edgeWaterLevel) ==
    LET scratch == [i \in BasinVertices |->
                       IF basinEdge(i) THEN edgeWaterLevel - hm[i]
                       ELSE basinSpread(hm, depth, i, 1, depth[i])]
        changed == \E i \in BasinVertices :
                       Abs(scratch[i] - depth[i]) > FloodEps
    IN [changed |-> changed, depth |-> IF changed THEN scratch ELSE depth]

\* heights of the generated terrains (hundredths)
BasinHeights == {0, 199, 300}

\* edge water levels passed to flood (hundredths)
BasinLevels == {200, 201, 300}

\* the boundary vertices that may lie lower than the rest of the boundary
Inlets == {0, 7, 13}

\* The heightmaps generator.sample may give, as far as the model draws them,
\* with heights from hs: any height at each interior vertex; one height for
\* the boundary but for one vertex of it, the inlet, which has any height.
BasinTerrains(hs) ==
    {[v \in BasinVertices |->
        IF basinEdge(v) THEN (IF v = b THEN e[1] ELSE e[2]) ELSE inner[v]] :
     b \in Inlets, e \in hs \X hs, inner \in [BasinInterior -> hs]}

\* the constructor of TerrainGeometry: a heightmap, no water
InitBasin ==
    /\ heightmap \in BasinTerrains(BasinHeights)
    /\ vertexWaterDepth = [v \in BasinVertices |-> 0]
    /\ lastFlood = NoFlood
    /\ AppIdle
    /\ flockSize = 0
    /\ log = [op |-> "init"]

\* one call terrain.flood(edgeWaterLevel), the level not below that of the
\* call before
BasinFloodCall(edgeWaterLevel) ==
    /\ log.op = "flood" => edgeWaterLevel >= log.level
    /\ LET r == basinFlood(heightmap, vertexWaterDepth, edgeWaterLevel)
       IN /\ vertexWaterDepth' = r.depth
          /\ log' = [op |-> "flood", level |-> edgeWaterLevel,
                     changed |-> r.changed]
    /\ UNCHANGED <<heightmap, lastFlood, appVars, flockSize>>

NextBasin == \E edgeWaterLevel \in BasinLevels : BasinFloodCall(edgeWaterLevel)

SpecBasin == InitBasin /\ [][NextBasin]_vars

-----------------------------------------------------------------------------
(* The first click alone, in a corner of the map, with a first flock larger *)
(* than the slots of one face: the water has settled at the water level    *)
(* before the player clicks.                                                *)

\* the sheep the first click tries to create in these runs (20 in the game)
FirstFlock == 4

\* the faces these runs click on: the two faces that have all 3 vertices on
\* the boundary
CornerFaces == {f \in Faces : \A k \in 1..3 : isEdge(faceToVertices[f][k])}

\* heights (hundredths) of the terrains of these runs
FlockHeights == {0, 200, 300}

\* The heightmaps generator.sample may give, as far as these runs draw them:
\* one height for the corner vertices (those of a single face), one for the
\* other vertices of the corner faces, and the lowest height for the rest,
\* which lies under the water.
FlockTerrains ==
    {[v \in Vertices |->
        IF Len(vertexToFaces[v]) = 1 THEN h[1]
        ELSE IF \E f \in CornerFaces : v \in Range(faceToVertices[f]) THEN h[2]
        ELSE SetMin(FlockHeights)] :
     h \in FlockHeights \X FlockHeights}

InitFlock ==
    /\ heightmap \in FlockTerrains
    /\ waterLevel \in GameLevels
    /\ vertexWaterDepth =
          settledDepth(heightmap, [v \in Vertices |-> 0], waterLevel)
    /\ lastFlood = [NoFlood EXCEPT !.called = TRUE, !.level = waterLevel,
                                   !.settled = TRUE, !.only = FALSE,
                                   !.fromDepth = vertexWaterDepth]
    /\ faceGrass \in {[f \in Faces |-> g] : g \in GrassLevels}
    /\ sheep = <<>>
    /\ faceSheepSlotFree = [f \in Faces |-> Undefined]
    /\ flockingPoint = Null
    /\ waterCounter = 0
    /\ frame = 4 * Resolution
    /\ sheepStoredFood = 0
    /\ templeLevel = 1
    /\ errors = {}
    /\ created = 0
    /\ clicks = 0
    /\ rendered = 0
    /\ flockSize = 0
    /\ log = [op |-> "init"]

\* raycast(intersection) while there is no flocking point, the first flock
\* of FirstFlock sheep
FirstClick(faceIndex) ==
    /\ flockingPoint = Null
    /\ clicks < MaxClicks
    /\ clicks' = clicks + 1
    /\ IF raycastReturns(vertexWaterDepth, faceIndex)
       THEN /\ log' = [op |-> "click", face |-> faceIndex, accepted |-> FALSE,
                       flagSet |-> FALSE]
            /\ UNCHANGED <<sheep, faceSheepSlotFree, flockingPoint, errors,
                           created>>
       ELSE /\ log' = [op |-> "click", face |-> faceIndex, accepted |-> TRUE,
                       flagSet |-> TRUE]
            /\ flockingPoint' = faceIndex
            /\ \E w \in flockRounds(FirstFlock,
                          {Work(sheep, faceSheepSlotFree, faceGrass,
                                sheepStoredFood, errors, created)},
                          1, vertexWaterDepth, flockTiles(faceIndex)) :
                 /\ sheep' = w.sheep
                 /\ faceSheepSlotFree' = w.slots
                 /\ errors' = w.errors
                 /\ created' = w.created
    /\ UNCHANGED <<heightmap, vertexWaterDepth, faceGrass, waterLevel,
                   waterCounter, frame, sheepStoredFood, templeLevel,
                   flockSize, rendered, lastFlood>>

NextFlock == \E faceIndex \in CornerFaces : FirstClick(faceIndex)

SpecFlock == InitFlock /\ [][NextFlock]_vars

-----------------------------------------------------------------------------
(* The water depth of a face's colour.  log holds the attributes setupVertices *)
(* has written and, for every face, the local faceWaterDepth that its          *)
(* getFaceColor call computed.                                                 *)

\* heights and water levels (hundredths) on both sides of colorMap's 40.00
\* water-depth step
DeepHeights == {0, 200, 4100}
DeepLevels == {200, 4100, 4200}

DepthLog(op, mesh, depths) ==
    [op |-> op, highlightedFace |-> mesh.highlightedFace,
     colors |-> mesh.colors, positions |-> mesh.positions,
     faceWaterDepth |-> depths]

\* a game whose water has settled at the water level, the attributes as the
\* constructor leaves them before its setupVertices call
InitDepth ==
    /\ heightmap \in Terrains(DeepHeights)
    /\ waterLevel \in DeepLevels
    /\ vertexWaterDepth =
          settledDepth(heightmap, [v \in Vertices |-> 0], waterLevel)
    /\ lastFlood = [NoFlood EXCEPT !.called = TRUE, !.level = waterLevel,
                                   !.settled = TRUE, !.only = FALSE,
                                   !.fromDepth = vertexWaterDepth]
    /\ faceGrass \in {[f \in Faces |-> g] : g \in PaintGrass}
    /\ sheep = <<>>
    /\ faceSheepSlotFree = [f \in Faces |-> Undefined]
    /\ flockingPoint = Null
    /\ waterCounter = 0
    /\ frame = 1
    /\ sheepStoredFood = 0
    /\ templeLevel = 1
    /\ errors = {}
    /\ created = 0
    /\ clicks = 0
    /\ rendered = 1
    /\ flockSize = 0
    /\ log = DepthLog("new", newMesh, [f \in Faces |-> 0])

\* setupVertices(): setFace of every face, each with its getFaceColor
SetupVerticesCall ==
    /\ log.op = "new"
    /\ log' = DepthLog("setupVertices",
                       setupVertices(log, heightmap, vertexWaterDepth,
                                     faceGrass),
                       [f \in Faces |->
                          faceWaterDepth(heightmap, vertexWaterDepth, f)])
    /\ UNCHANGED <<heightmap, vertexWaterDepth, lastFlood, flockSize, appVars>>

NextDepth == SetupVerticesCall

SpecDepth == InitDepth /\ [][NextDepth]_vars

-----------------------------------------------------------------------------
(* The adjacency index for every resolution up to MaxResolution: the        *)
(* constructor, the queries adjacentPoints and adjacentFaces, and the ticks *)
(* of the game.  log holds the terrain's faces, faceToVertices and          *)
(* vertexToFaces, the last call with its argument and result, and the       *)
(* number of ticks so far.                                                  *)

\* the ticks a run counts
MaxIndexTicks == 2

IndexLog(op, r, arg, result, index, ticks) ==
    [op |-> op, r |-> r, arg |-> arg, result |-> result,
     faces |-> index.faces, faceToVertices |-> index.faceToVertices,
     vertexToFaces |-> index.vertexToFaces, ticks |-> ticks]

InitIndex ==
    /\ heightmap = [v \in Vertices |-> 0]
    /\ vertexWaterDepth = [v \in Vertices |-> 0]
    /\ lastFlood = NoFlood
    /\ AppIdle
    /\ flockSize = 0
    /\ log = IndexLog("init", 0, 0, 0,
                      [faces |-> <<>>, faceToVertices |-> <<>>,
                       vertexToFaces |-> <<>>], 0)

\* new TerrainGeometry(width, r, ...): the initFace calls of the constructor
NewIndex(r) ==
    /\ log.op = "init"
    /\ log' = IndexLog("new", r, r, 0,
                       [faces |-> facesAt(r),
                        faceToVertices |-> faceToVerticesAt(r),
                        vertexToFaces |-> vertexToFacesAt(r)], 0)
    /\ UNCHANGED <<heightmap, vertexWaterDepth, lastFlood, flockSize, appVars>>

\* terrain.adjacentPoints(pointIndex)
AdjacentPointsCall(pointIndex) ==
    /\ log.op # "init"
    /\ pointIndex < (log.r + 1) * (log.r + 1)
    /\ log' = IndexLog("adjacentPoints", log.r, pointIndex,
                       adjacentPointsAt(log.r, pointIndex), log, log.ticks)
    /\ UNCHANGED <<heightmap, vertexWaterDepth, lastFlood, flockSize, appVars>>

\* terrain.adjacentFaces(faceIdx)
AdjacentFacesOfIndex(faceIdx) ==
    /\ log.op # "init"
    /\ faceIdx \in Range(log.faces)
    /\ log' = IndexLog("adjacentFaces", log.r, faceIdx,
                       adjacentFacesAt(log.r, faceIdx), log, log.ticks)
    /\ UNCHANGED <<heightmap, vertexWaterDepth, lastFlood, flockSize, appVars>>

\* App.tick: its flood, setupVertices and sheep calls assign none of faces,
\* faceToVertices and vertexToFaces
IndexTick ==
    /\ log.op # "init"
    /\ log.ticks < MaxIndexTicks
    /\ log' = IndexLog("tick", log.r, 0, 0, log, log.ticks + 1)
    /\ UNCHANGED <<heightmap, vertexWaterDepth, lastFlood, flockSize, appVars>>

NextIndex ==
    \/ \E r \in 1..MaxResolution : NewIndex(r)
    \/ \E pointIndex \in 0 .. ((MaxResolution + 1) * (MaxResolution + 1)) :
          AdjacentPointsCall(pointIndex)
    \/ \E faceIdx \in 0 .. (2 * (MaxResolution + 1) * (MaxResolution + 1)) :
          AdjacentFacesOfIndex(faceIdx)
    \/ IndexTick

SpecIndex == InitIndex /\ [][NextIndex]_vars

\* the faces within n hops of face f in the face-adjacency graph
RECURSIVE within(_, _)
within(f, n) ==
    IF n = 0 THEN {f}
    ELSE LET b == within(f, n - 1)
         IN b \cup UNION {Range(adjacentFaces[g]) : g \in b}

\* the hop distance of face g from face f (the number of faces if there is
\* no path)
hops(f, g) ==
    LET ns == {n \in 0 .. Cardinality(Faces) : g \in within(f, n)}
    IN IF ns = {} THEN Cardinality(Faces) ELSE SetMin(ns)

-----------------------------------------------------------------------------
(* The claims *)

\* the variables named in fields have the values they had in the state was,
\* the state the last step started in
kept(was, fields) == \A x \in fields : Snapshot[x] = was[x]

\* all 3 vertices of the face have positive water depth
submerged(depth, faceIdx) ==
    \A k \in 1..3 : depth[faceToVertices[faceIdx][k]] > 0

\* C1: in every reachable state no face is the face of more than 3 live
\* sheep, every live sheep's slot is 0, 1 or 2, and no two live sheep on the
\* same face have the same slot.
OccupancyInvariant ==
    /\ \A f \in Faces : countSheepOnFace(sheep, f) <= 3
    /\ \A k \in DOMAIN sheep :
          sheep[k].slot \in 0..2 /\ sheep[k].faceIndex \in Faces
    /\ \A j, k \in DOMAIN sheep :
          j # k /\ sheep[j].faceIndex = sheep[k].faceIndex
             => sheep[j].slot # sheep[k].slot

\* C1 happens: a face holds 3 live sheep, the last of them spawned
FullFaceReached ==
    \E f \in Faces :
        /\ countSheepOnFace(sheep, f) = 3
        /\ created > InitialFlock

\* C2: every call of setSheepOnFace is made for a face for which
\* canSetSheepOnFace holds at the call, and the branch "caller failed to
\* check face was available" is never taken.
CallersCheckFirst ==
    /\ Unchecked \notin errors
    /\ CallerFailed \notin errors

\* C2 happens: a slow tick in which a sheep of the first flock was sent to
\* another face and a sheep was spawned
SlowTickMovedAndSpawned ==
    /\ log.op = "tick"
    /\ log.spawned
    /\ \E k \in DOMAIN sheep :
          sheep[k].id <= InitialFlock /\ sheep[k].movement = <<0>>

FloodConverges ==
    /\ lastFlood.passes <= resolution
    /\ lastFlood.settled => ~lastFlood.changed

\* C4 happens: flood returned true twice, then false, and was called again
FloodSettledAfterTwoPasses ==
    /\ lastFlood.called
    /\ lastFlood.settled
    /\ lastFlood.passes = 2

\* C5 as claimed: the water depth of every vertex is at least 0 after any
\* sequence of flood calls.
DepthNeverNegative ==
    \A v \in Vertices : vertexWaterDepth[v] >= 0

\* C6: when flood has returned false at level L1 and is then called with
\* L2 >= L1 until it returns false, no vertex has a smaller depth than it had
\* when the calls with L2 began.
FloodMonotone ==
    (/\ lastFlood.called
     /\ ~lastFlood.changed
     /\ lastFlood.fromConverged
     /\ lastFlood.fromLevel <= lastFlood.level)
        => \A v \in Vertices : vertexWaterDepth[v] >= lastFlood.fromDepth[v]

\* C6 happens: converged at a level, then at a higher one, with more water
FloodRoseAfterConvergence ==
    /\ lastFlood.called
    /\ ~lastFlood.changed
    /\ lastFlood.fromConverged
    /\ lastFlood.fromLevel < lastFlood.level
    /\ \E v \in InteriorVertices :
          vertexWaterDepth[v] > lastFlood.fromDepth[v]

\* C7 as claimed: from the new terrain, flood called with the lowest height
\* minus 1 until it returns false leaves depth 0 at every vertex.
LowestLevelLeavesNoDepth ==
    (/\ lastFlood.called
     /\ lastFlood.only
     /\ lastFlood.level = minHeight(heightmap) - 100
     /\ ~lastFlood.changed)
        => \A v \in Vertices : vertexWaterDepth[v] = 0

\* C8 as claimed: faceVerticesAllWater(face) is true iff the 3 vertices of
\* the face have positive depth.
AllWaterIffSubmerged ==
    \A f \in Faces :
        faceVerticesAllWater(vertexWaterDepth, f)
            <=> submerged(vertexWaterDepth, f)

\* C9: stored food is never negative; it goes down only in a slow tick whose
\* trySpawnSheep succeeded, and then by exactly 5 from what the flock had
\* gathered; trySpawnSheep is called only with stored food above 5, and a
\* slow tick creates at most one sheep; in every other step stored food does
\* not go down.
FoodOnlyBuysSheep ==
    /\ sheepStoredFood >= 0
    /\ log.op # "init" =>
          LET was == log.before
          IN /\ sheepStoredFood < was.sheepStoredFood
                   => log.op = "tick" /\ log.slow /\ log.spawned
             /\ log.op = "tick" =>
                   /\ log.foraged >= was.sheepStoredFood
                   /\ log.tried <=> log.slow /\ log.foraged > SpawnCost
                   /\ log.spawned => log.tried
                   /\ sheepStoredFood =
                         IF log.spawned THEN log.foraged - SpawnCost
                         ELSE log.foraged
                   /\ created = IF log.spawned THEN was.created + 1
                                ELSE was.created

\* C9 happens: a slow tick spawned a sheep
SheepBought ==
    /\ log.op = "tick"
    /\ log.spawned
    /\ sheepStoredFood < SpawnCost

\* C10: templeLevel is in 1..8 and never goes down; a slow tick takes it
\* from k to k+1 exactly when k <= 7 and the flock has at least
\* 30 + 10*(k-1) sheep, and to nothing else; no other step changes it.
TempleRatchet ==
    [][/\ templeLevel \in 1..8 /\ templeLevel' \in 1..8
       /\ templeLevel' >= templeLevel
       /\ templeLevel' <= templeLevel + 1
       /\ log'.op = "temple" =>
            (templeLevel' = templeLevel + 1
                <=> /\ templeLevel <= 7
                    /\ flockSize >= 30 + 10 * (templeLevel - 1))
       /\ log'.op # "temple" => templeLevel' = templeLevel]_vars

\* C10 happens: the temple reached level 8 and kept it with a flock below 30
TempleKeptAfterShrink ==
    /\ templeLevel = 8
    /\ flockSize < 30
    /\ log.op = "temple"

\* C11: while a flocking point exists and the water level is below its cap,
\* exactly 600 fast ticks pass between the setting of the flocking point and
\* the first raise and between two consecutive raises: a fast tick raises the
\* level exactly when 600 fast ticks have ended since the flocking point was
\* set or the level was last raised (the raise is made by the tick after them).
RaiseAfter600Ticks ==
    [][log'.op = "tick" =>
        /\ log'.raised => flockingPoint # Null /\ log.since = WaterPeriod
        /\ (/\ flockingPoint # Null
            /\ log.since = WaterPeriod
            /\ waterLevel < highestWaterLevelOf(heightmap)) => log'.raised
        /\ log'.raised <=> waterLevel' # waterLevel]_vars

\* C11 happens: a raise of a level that an earlier raise had set
RaisedTwice ==
    /\ log.op = "tick"
    /\ log.raised
    /\ log.before \notin WaterStarts

\* C12: a raise adds to the level before it 3 if that level is below -35,
\* else 5 if it is below 20, else 10 if below 40, else 20 if below 90, else
\* 35, and the sum is capped at heightmap[highestVertex] + 1.
RaiseStepByTier ==
    [][log'.op = "tick" /\ log'.raised =>
        LET step == CASE waterLevel < -3500 -> 300
                      [] waterLevel >= -3500 /\ waterLevel < 2000 -> 500
                      [] waterLevel >= 2000 /\ waterLevel < 4000 -> 1000
                      [] waterLevel >= 4000 /\ waterLevel < 9000 -> 2000
                      [] waterLevel >= 9000 -> 3500
            cap == heightmap[highestVertexOf(heightmap)] + 100
        IN /\ log'.before = waterLevel
           /\ waterLevel' = IF waterLevel + step > cap THEN cap
                            ELSE waterLevel + step]_vars

\* C12 happens: a raise by 35 from level 90, below the cap
RaisedBy35 ==
    /\ log.op = "tick"
    /\ log.raised
    /\ log.before = 9000
    /\ waterLevel = 12500

\* C13: with an initial water level of at most heightmap[highestVertex] + 1
\* (every water run starts so), waterLevel is never above
\* heightmap[highestVertex] + 1, never goes down, and does not change in a
\* step taken while the flocking point is null.
LevelCappedAndRising ==
    [][/\ waterLevel <= highestWaterLevelOf(heightmap)
       /\ waterLevel' <= highestWaterLevelOf(heightmap)
       /\ waterLevel' >= waterLevel
       /\ flockingPoint = Null => waterLevel' = waterLevel]_vars

\* C13 happens: a raise ended at the cap, the step of its tier cut short
RaiseCapped ==
    /\ log.op = "tick"
    /\ log.raised
    /\ waterLevel = highestWaterLevelOf(heightmap)
    /\ waterLevel < log.before + 500

\* C14 as claimed: the map never becomes 100% submerged: in every state of
\* the game the highest vertex has no positive depth and some face is not
\* fully submerged.
PeakSurvives ==
    /\ vertexWaterDepth[highestVertexOf(heightmap)] <= 0
    /\ \E f \in Faces : ~submerged(vertexWaterDepth, f)

\* C14 amended: the cap bounds the water surface, not the submersion: in
\* every state of the game no vertex with water has its surface (height plus
\* depth) above heightmap[highestVertex] + 1, so the highest vertex is never
\* under more than 1 of water.
SurfaceBelowCap ==
    /\ \A v \in Vertices :
          vertexWaterDepth[v] > 0 =>
              heightmap[v] + vertexWaterDepth[v]
                  <= highestWaterLevelOf(heightmap)
    /\ vertexWaterDepth[highestVertexOf(heightmap)] <= 100

\* C14 happens: the level is at the cap and every face is fully submerged,
\* the highest vertex under 1 of water
MapSubmerged ==
    /\ waterLevel = highestWaterLevelOf(heightmap)
    /\ \A f \in Faces : submerged(vertexWaterDepth, f)
    /\ vertexWaterDepth[highestVertexOf(heightmap)] = 100

\* C15: for every resolution r >= 1 and every face f, adjacentFaces(f) is
\* exactly the set of the faces g # f that share exactly 2 vertices with f
\* (each listed once), it does not contain f, and g is in adjacentFaces(f)
\* iff f is in adjacentFaces(g).
AdjacentSharesTwoVertices ==
    log.op = "adjacentFaces" =>
        LET f2v == faceToVerticesAt(log.r)
            f == log.arg
            adj == Range(log.result)
        IN /\ adj = {g \in DOMAIN f2v :
                        /\ g # f
                        /\ Cardinality(Range(f2v[f]) \cap Range(f2v[g])) = 2}
           /\ Len(log.result) = Cardinality(adj)
           /\ f \notin adj
           /\ \A g \in DOMAIN f2v :
                  g \in adj <=> f \in Range(adjacentFacesAt(log.r, g))

\* C15 happens: adjacentFaces of a face that has 3 adjacent faces and shares
\* a single vertex with other faces, in the mesh of resolution 4
ThreeAdjacentFaces ==
    /\ log.op = "adjacentFaces"
    /\ log.r = 4
    /\ Len(log.result) = 3
    /\ Len(adjacentFacesSharingVertex(log.r, log.arg)) > 3

MovementNotInterrupted ==
    log.op # "init" =>
       LET was == log.before
       IN \A j \in DOMAIN was.sheep : \A k \in DOMAIN sheep :
             (/\ was.sheep[j].id = sheep[k].id
              /\ was.sheep[j].movement # <<>>
              /\ was.sheep[j].movement[1] + 1 < ProgressSteps)
                 => /\ sheep[k].faceIndex = was.sheep[j].faceIndex
                    /\ sheep[k].slot = was.sheep[j].slot
                    /\ sheep[k].movement =
                          IF rendered # was.rendered
                          THEN <<was.sheep[j].movement[1] + 1>>
                          ELSE was.sheep[j].movement

\* C17 happens: a slow tick has left a sheep in its movement on a face from
\* which goal-seeking would send a resting sheep on
MovingSheepPassedOver ==
    /\ log.op = "tick"
    /\ log.slow
    /\ clicks > 0
    /\ \E k \in DOMAIN sheep :
          /\ sheep[k].movement # <<>>
          /\ sheep[k].movement[1] >= 1
          /\ seekBest(vertexWaterDepth, faceSheepSlotFree,
                      adjacentFaces[sheep[k].faceIndex], 1, flockingPoint,
                      sheep[k].faceIndex) # sheep[k].faceIndex

\* C18 as claimed: a movement is over (movement null) after exactly 10 fast
\* ticks of its sheep: it is in progress after fewer than 10 calls of tick
\* and over after 10.
MovementTakesTenTicks ==
    /\ log.ticks < 10 => sheep[1].movement # <<>>
    /\ log.ticks >= 10 => sheep[1].movement = <<>>

\* face g can take a sheep as the specification words it: it is not fully
\* submerged and has a free slot
notSubmergedWithFreeSlot(depth, slots, g) ==
    /\ ~submerged(depth, g)
    /\ \/ slots[g] = Undefined
       \/ \E k \in 1..3 : slots[g][k]

\* C19 as claimed: when trySpawnSheep succeeds, the new sheep is on a face
\* that is not fully submerged and had a free slot, no face that is not fully
\* submerged and has a free slot is fewer hops from the flocking point, and
\* the search has examined no face twice.
SpawnOnNearestFace ==
    [][(log'.op = "trySpawnSheep" /\ log'.spawned)
        => LET f == sheep'[Len(sheep')].faceIndex
           IN /\ notSubmergedWithFreeSlot(vertexWaterDepth,
                                           faceSheepSlotFree, f)
              /\ \A g \in Faces :
                    notSubmergedWithFreeSlot(vertexWaterDepth,
                                             faceSheepSlotFree, g)
                       => hops(flockingPoint, f) <= hops(flockingPoint, g)
              /\ \A i, j \in DOMAIN log'.examined :
                    log'.examined[i] = log'.examined[j] => i = j]_vars

\* C20 as claimed: trySpawnSheep returns false only when no face reachable
\* from the flocking point is both not fully submerged and has a free slot;
\* it then leaves the sheep list, the slot bitmap and the stored food as
\* they were, and the slow tick goes on without an error.
SpawnFailsOnlyWhenNoFaceLeft ==
    [][(log'.op = "trySpawnSheep" /\ ~log'.spawned)
        => /\ \A g \in within(flockingPoint, Cardinality(Faces)) :
                 ~notSubmergedWithFreeSlot(vertexWaterDepth,
                                           faceSheepSlotFree, g)
           /\ sheep' = sheep
           /\ faceSheepSlotFree' = faceSheepSlotFree
           /\ sheepStoredFood' = sheepStoredFood
           /\ errors' = errors]_vars

\* the faces adjacent to face from that are strictly closer to the flocking
\* point, not fully submerged and have a free slot
closerFaces(depth, slots, from, fp) ==
    {g \in Range(adjacentFaces[from]) :
        /\ notSubmergedWithFreeSlot(depth, slots, g)
        /\ distSq(g, fp) < distSq(from, fp)}

RECURSIVE sumOver(_, _)
sumOver(g, fs) ==
    IF fs = {} THEN 0
    ELSE LET f == CHOOSE x \in fs : TRUE IN g[f] + sumOver(g, fs \ {f})

\* the sheep a tick's slow tick starts with: the live list after the death
\* check and the sweep
liveAfterSweep == sweep(deathPass(sheep, vertexWaterDepth))

\* the same of the state a step started in
liveAfterSweepOf(was) == sweep(deathPass(was.sheep, was.vertexWaterDepth))

\* the grass n bites leave of g
afterBites(g, n) == Max2(g - n * Bite, 0)

\* C22 as claimed: in every slow tick each live sheep forages once, in its
\* movement or not: each face loses min(grass, 0.005) for each of the live
\* sheep on it, and stored food gains what the faces lose.
EverySheepForages ==
    [][(log'.op = "tick" /\ log'.slow)
        => LET live == liveAfterSweep
               on(f) == {k \in DOMAIN live : sheep'[k].faceIndex = f}
           IN /\ \A f \in Faces :
                    faceGrass'[f] =
                       afterBites(faceGrass[f], Cardinality(on(f)))
              /\ log'.foraged - sheepStoredFood
                    = sumOver(faceGrass, Faces) - sumOver(faceGrass', Faces)
       ]_vars

\* C22 amended: in every slow tick each live sheep that is not in a movement
\* when the loop reaches it forages once, on the face it occupies after its
\* move: each face loses min(grass, 0.005) for each such sheep on it, and
\* stored food gains what the faces lose; a sheep in its movement is passed
\* over and does not forage.
RestingSheepForage ==
    (log.op = "tick" /\ log.slow)
        => LET was == log.before
               live == liveAfterSweepOf(was)
               on(f) == {k \in DOMAIN live : /\ live[k].movement = <<>>
                                              /\ sheep[k].faceIndex = f}
           IN /\ \A f \in Faces :
                    faceGrass[f] =
                       afterBites(was.faceGrass[f], Cardinality(on(f)))
              /\ log.foraged - was.sheepStoredFood
                    = sumOver(was.faceGrass, Faces) - sumOver(faceGrass, Faces)

\* C22 happens: a slow tick has left one sheep in its movement on a face
\* whose grass is untouched, and has fed another sheep
MovingSheepUnfed ==
    /\ log.op = "tick"
    /\ log.slow
    /\ log.foraged > 0
    /\ \E k \in DOMAIN sheep :
          /\ sheep[k].movement # <<>>
          /\ sheep[k].movement[1] >= 1
          /\ faceGrass[sheep[k].faceIndex] \in GrassLevels
    /\ \E f \in Faces : faceGrass[f] \notin GrassLevels

\* C23: the assertion "flocking point unexpectedly null" of slowTick never
\* fails: whenever there is a live sheep or stored food is above 5 the
\* flocking point is not null, and a flocking point, once set, is never
\* reset to null.
FlockingPointWhenNeeded ==
    /\ (/\ AssertFailed \notin errors
        /\ (sheep # <<>> \/ sheepStoredFood > SpawnCost))
          => flockingPoint # Null
    /\ (log.op # "init" /\ log.before.flockingPoint # Null)
          => flockingPoint # Null

\* C23 happens: after a click, a slow tick has passed the assertion for a
\* resting sheep and sent it on
AssertionPassed ==
    /\ log.op = "tick"
    /\ log.slow
    /\ clicks > 0
    /\ flockingPoint # Null
    /\ errors = {}
    /\ ~log.spawned
    /\ \E k \in DOMAIN sheep : sheep[k].movement = <<0>>

\* C24: the slow tick runs in the fast ticks of frames 0, 4, 8, ... and in
\* no other, one tick per frame, as the last step of its tick: its flood is
\* called with the water level the ratchet of the same tick has left, and
\* its sheep are those the death check and the sweep of the same tick have
\* left; a tick without a slow tick changes no depth, grass, slot, stored
\* food or temple level.
SlowTickEveryFourth ==
    log.op = "tick"
        => LET was == log.before
               live == liveAfterSweepOf(was)
           IN /\ log.slow = (was.frame % 4 = 0)
              /\ frame = was.frame + 1
              /\ rendered = was.rendered + 1
              /\ log.slow
                    => /\ lastFlood.called
                       /\ lastFlood.level = waterLevel
                       /\ \A k \in DOMAIN live : sheep[k].id = live[k].id
                       /\ Len(sheep) = Len(live)
                                         + (IF log.spawned THEN 1 ELSE 0)
              /\ ~log.slow
                    => /\ kept(was, {"vertexWaterDepth", "faceGrass",
                                     "lastFlood", "faceSheepSlotFree",
                                     "sheepStoredFood", "templeLevel"})
                       /\ sheep = live

\* C24 happens: the tick of a 4th frame has raised the water and then run
\* the slow tick, whose flood has changed the depths for the new level
RaisedThenSlowTick ==
    /\ log.op = "tick"
    /\ log.slow
    /\ log.raised
    /\ rendered > 4
    /\ lastFlood.level = waterLevel
    /\ lastFlood.changed
    /\ sheep # <<>>

openTiles(was, f) ==
    {t \in flockTiles(f) :
        canSetSheepOnFace(was.vertexWaterDepth, was.faceSheepSlotFree, t)}

GrassOnlyEaten ==
    /\ \A f \in Faces : faceGrass[f] >= 0
    /\ log.op # "init" =>
          LET was == log.before
              live == liveAfterSweepOf(was)
          IN \A f \in Faces :
                /\ faceGrass[f] <= was.faceGrass[f]
                /\ faceGrass[f] # was.faceGrass[f]
                      => /\ log.op = "tick"
                         /\ log.slow
                         /\ was.faceGrass[f] - faceGrass[f]
                               <= Bite * Cardinality(
                                     {k \in DOMAIN live :
                                         /\ live[k].movement = <<>>
                                         /\ sheep[k].faceIndex = f})

\* C26 happens: the sheep have eaten a face bare, the last bite being what
\* was left of its grass
FaceEatenBare ==
    /\ log.op = "tick"
    /\ log.slow
    /\ \E f \in Faces :
          /\ faceGrass[f] = 0
          /\ countSheepOnFace(sheep, f) > 0

\* the colour entries of face f
faceEntries(f) == {f * 3 + i : i \in 0..2}

\* C27: setHighlightedFace(new) changes colour entries of the previously
\* highlighted face and of the new one only, and no position, depth or
\* grass; afterwards highlightedFace is the new face and the new face, and
\* no other, has the brightened colour.
HighlightRepaintsTwoFaces ==
    [][log'.op = "setHighlightedFace"
        => LET new == log'.highlightedFace
               old == log.highlightedFace
           IN /\ log'.old = old
              /\ \A e \in bufferEntries :
                    e \notin faceEntries(new) \cup
                               (IF old = Null THEN {} ELSE faceEntries(old))
                       => log'.colors[e] = log.colors[e]
              /\ log'.positions = log.positions
              /\ UNCHANGED <<heightmap, vertexWaterDepth, faceGrass>>
              /\ \A f \in Faces : \A e \in faceEntries(f) :
                    log'.colors[e] =
                       getFaceColor(heightmap, vertexWaterDepth, faceGrass,
                                    Null, f)
                    <=> f # new]_vars

\* C27 happens: the highlight has moved from one face to another
HighlightMoved ==
    /\ log.op = "setHighlightedFace"
    /\ log.old # Null
    /\ log.old # log.highlightedFace
    /\ log.colors[log.old * 3] # log.colors[log.highlightedFace * 3]

\* C28: after every fast tick the live sheep list holds no sheep whose isDead
\* flag is set: the sheep the death check of a tick has flagged are removed
\* by the sweep of the same tick, ahead of its water ratchet and slow tick,
\* and the others are kept in their order.
NoDeadSheepListed ==
    /\ \A k \in DOMAIN sheep : ~sheep[k].isDead
    /\ log.op = "tick"
          => LET was == log.before
             IN /\ \A k \in DOMAIN sheep : sheep[k].id \notin log.died
                /\ log.died =
                      {was.sheep[k].id : k \in
                         {j \in DOMAIN was.sheep :
                            faceVerticesAllWater(was.vertexWaterDepth,
                                                 was.sheep[j].faceIndex)}}
                /\ Len(sheep) = Len(was.sheep) - Cardinality(log.died)
                                  + (IF log.spawned THEN 1 ELSE 0)
                /\ \A k \in 1 .. (Len(was.sheep) - Cardinality(log.died)) :
                      sheep[k].id = liveAfterSweepOf(was)[k].id

\* C28 happens: a fast tick has flagged one sheep dead and swept it from the
\* list, in which another sheep lives on
DeadSheepSwept ==
    /\ log.op = "tick"
    /\ log.died # {}
    /\ sheep # <<>>
    /\ \A k \in DOMAIN sheep : sheep[k].id \notin log.died

\* the vertices that share a face with vertex i
sharingFace(i) ==
    {j \in Vertices \ {i} :
        \E f \in Faces : {i, j} \subseteq Range(faceToVertices[f])}

\* the depth a pass with edge level l proposes for vertex i: the edge level
\* less the height on the boundary; inside, the highest of the vertex's
\* depth and of what the surfaces of its wet neighbours would give it
proposedDepth(i, l) ==
    IF isEdge(i) THEN l - heightmap[i]
    ELSE SetMax({vertexWaterDepth[i]} \cup
                {heightmap[j] + vertexWaterDepth[j] - heightmap[i] :
                    j \in {n \in sharingFace(i) : vertexWaterDepth[n] > 0}})

\* C29: a flood pass is all or nothing: if no vertex's proposed depth
\* differs from its depth by more than 0.01 it returns false and changes no
\* depth; otherwise it returns true and every vertex has its proposed depth,
\* a boundary vertex the edge level less its height.
FloodAllOrNothing ==
    [][log'.op = "flood"
        => LET l == lastFlood'.level
               differs == \E i \in Vertices :
                             Abs(proposedDepth(i, l) - vertexWaterDepth[i])
                                > FloodEps
           IN /\ lastFlood'.changed = differs
              /\ ~differs => vertexWaterDepth' = vertexWaterDepth
              /\ differs => \A i \in Vertices :
                               vertexWaterDepth'[i] = proposedDepth(i, l)]_vars

\* C29 happens: a pass has returned true and stored, with the depths that
\* changed by more than 0.01, one that changed by 0.01 only
SmallChangeStored ==
    /\ log.op = "flood"
    /\ lastFlood.changed
    /\ \E i \in Vertices :
          Abs(vertexWaterDepth[i] - log.before[i]) = FloodEps

\* C30: one flood pass takes water one vertex further at most: an interior
\* vertex of depth 0 has a positive depth after the pass only if a vertex
\* sharing a face with it had a positive depth before the pass; the water a
\* boundary vertex gets in a pass reaches its neighbours in a later pass.
FloodSpreadsOneHop ==
    [][log'.op = "flood"
        => \A i \in InteriorVertices :
              (vertexWaterDepth[i] = 0 /\ vertexWaterDepth'[i] > 0)
                 => \E j \in sharingFace(i) : vertexWaterDepth[j] > 0]_vars

\* C30 happens: a pass has put water on a boundary vertex, higher than the
\* dry interior vertex next to it, and has left that vertex dry
WaterStoppedAtTheEdge ==
    /\ log.op = "flood"
    /\ lastFlood.changed
    /\ \E i \in InteriorVertices :
          /\ log.before[i] = 0
          /\ vertexWaterDepth[i] = 0
          /\ \E j \in sharingFace(i) :
                /\ log.before[j] <= 0
                /\ vertexWaterDepth[j] > 0
                /\ heightmap[j] + vertexWaterDepth[j] > heightmap[i]


\* the vertices a path of at most n hops joins to the boundary, every vertex
\* of the path, its boundary end too, of a height below bound; a hop goes
\* from a vertex to a vertex that shares a face with it
RECURSIVE lowReach(_, _, _)
lowReach(hm, bound, n) ==
    IF n = 0 THEN {v \in BasinVertices : basinEdge(v) /\ hm[v] < bound}
    ELSE LET b == lowReach(hm, bound, n - 1)
         IN b \cup {v \in BasinVertices :
                       /\ hm[v] < bound
                       /\ \E j \in b : j \in Range(basinNeighbours[v])}

\* the last call of flood returned false: the water has converged
basinConverged == log.op = "flood" /\ ~log.changed

\* C31 as claimed: once the flood, from the dry terrain and with levels that
\* never fall, has converged at level L, an interior vertex is wet iff it is
\* below L and joined to a boundary vertex below L by a path of vertices
\* below L, the surface of every wet vertex is exactly L, and no vertex at
\* or above L is wet.
FloodedToTheLevel ==
    basinConverged =>
        /\ \A i \in BasinInterior :
              vertexWaterDepth[i] > 0
                 <=> i \in lowReach(heightmap, log.level,
                                    Cardinality(BasinVertices))
        /\ \A v \in BasinVertices :
              vertexWaterDepth[v] > 0
                 => heightmap[v] + vertexWaterDepth[v] = log.level
        /\ \A v \in BasinVertices :
              heightmap[v] >= log.level => ~(vertexWaterDepth[v] > 0)

\* C31 amended: flood stores a pass only if it changes some depth by more
\* than 0.01, so the converged water is level up to 0.01 per hop.  Once the
\* flood has converged at level L: an interior vertex is wet only if it is
\* below L and joined to a boundary vertex below L by a path of vertices
\* below L; a vertex joined to the boundary by a path of k hops whose
\* vertices are all below L - (k + 1) * 0.01 is wet, with its surface at
\* L - (k + 1) * 0.01 or above; the surface of no wet vertex is above L; and
\* no vertex at or above L is wet.
FloodedToWithinEps ==
    basinConverged =>
        /\ \A i \in BasinInterior :
              vertexWaterDepth[i] > 0
                 => i \in lowReach(heightmap, log.level,
                                   Cardinality(BasinVertices))
        /\ \A k \in 0 .. Cardinality(BasinVertices) :
              \A v \in lowReach(heightmap, log.level - (k + 1) * FloodEps, k) :
                 /\ vertexWaterDepth[v] > 0
                 /\ heightmap[v] + vertexWaterDepth[v]
                       >= log.level - (k + 1) * FloodEps
        /\ \A v \in BasinVertices :
              vertexWaterDepth[v] > 0
                 => heightmap[v] + vertexWaterDepth[v] <= log.level
        /\ \A v \in BasinVertices :
              heightmap[v] >= log.level => ~(vertexWaterDepth[v] > 0)

\* C31 happens: the water has converged with an interior vertex wet that no
\* boundary vertex below the level touches, the water having come through
\* another interior vertex, and with its surface below the level
BasinFilledThroughInterior ==
    /\ basinConverged
    /\ \E i \in BasinInterior :
          /\ vertexWaterDepth[i] > 0
          /\ heightmap[i] + vertexWaterDepth[i] < log.level
          /\ \A j \in Range(basinNeighbours[i]) :
                basinEdge(j) => heightmap[j] >= log.level


\* C32: whatever the levels of the flood calls, rising or falling, the depth
\* of an interior vertex is never negative and no call lowers it; a depth
\* that a call lowers is that of a boundary vertex.
InteriorDepthNeverFalls ==
    [][/\ \A i \in InteriorVertices :
             vertexWaterDepth'[i] >= vertexWaterDepth[i]
       /\ \A i \in InteriorVertices : vertexWaterDepth'[i] >= 0
       /\ \A v \in Vertices :
             vertexWaterDepth'[v] < vertexWaterDepth[v] => isEdge(v)]_vars

\* C32 happens: a call with a lower level has taken depth from a boundary
\* vertex and has left an interior vertex its water, which now stands above
\* the level
WaterLeftBehind ==
    /\ log.op = "flood"
    /\ lastFlood.changed
    /\ \E b \in Vertices :
          isEdge(b) /\ vertexWaterDepth[b] < log.before[b]
    /\ \E i \in InteriorVertices :
          /\ vertexWaterDepth[i] > 0
          /\ vertexWaterDepth[i] = log.before[i]
          /\ heightmap[i] + vertexWaterDepth[i] > lastFlood.level


\* the live sheep that have face f and slot s
holders(f, s) ==
    {k \in DOMAIN sheep : sheep[k].faceIndex = f /\ sheep[k].slot = s}

\* C33 as claimed: in every reachable state faceSheepSlotFree[f][s] is
\* false iff exactly one live sheep has face f and slot s, a missing entry
\* counting as all free; so the slot of a sheep that died is free again.
SlotsAgreeWithSheep ==
    \A f \in Faces : \A s \in 0..2 :
        (faceSheepSlotFree[f] # Undefined /\ ~faceSheepSlotFree[f][s + 1])
            <=> Cardinality(holders(f, s)) = 1


\* C34 as claimed: waterCounter is within 0..600 in every reachable state,
\* also after the water level has reached its cap.
CounterWithinPeriod == waterCounter \in 0 .. WaterPeriod

\* C34 amended: waterCounter is never negative, and it is within 0..600
\* while the water level is below its cap heightmap[highestVertex] + 1; a
\* tick leaves it unchanged (no flocking point), sets it to 0 (a raise) or
\* adds 1 to it.  Once the level is at the cap no tick resets the counter:
\* it passes 600 and grows by 1 with every fast tick.
CounterWithinPeriodBelowCap ==
    /\ [](/\ waterCounter >= 0
          /\ waterLevel < highestWaterLevelOf(heightmap)
                => waterCounter <= WaterPeriod)
    /\ [][/\ waterCounter' \in {waterCounter, waterCounter + 1, 0}
          /\ (waterCounter >= WaterPeriod
                /\ waterLevel = highestWaterLevelOf(heightmap)
                /\ log'.op = "tick")
                => waterCounter' = waterCounter + 1]_vars

\* C34 happens: the level is at its cap and the counter has passed 600
CounterPastPeriod ==
    /\ waterLevel = highestWaterLevelOf(heightmap)
    /\ waterCounter > WaterPeriod
    /\ log.op = "tick"
    /\ ~log.raised


\* the grass of all faces and the stored food together
foodTotal(grass, food) == sumOver(grass, Faces) + food

\* C35: food is conserved.  Every step leaves the grass of all faces plus
\* the stored food as it was, but for a slow tick whose trySpawnSheep made
\* a sheep, which takes exactly 5 from it: grass eaten is food stored, the
\* sheep of the first flock cost nothing and a dying sheep gives nothing
\* back.  In a new game, where no sheep has been spawned yet, grass plus
\* stored food is the grass the faces began with.
FoodConserved ==
    /\ frame < LateFrame =>
          \E g \in GrassLevels :
              foodTotal(faceGrass, sheepStoredFood) = g * Cardinality(Faces)
    /\ log.op # "init" =>
          LET was == log.before
          IN /\ foodTotal(faceGrass, sheepStoredFood)
                   + (IF log.op = "tick" /\ log.spawned THEN SpawnCost ELSE 0)
                = foodTotal(was.faceGrass, was.sheepStoredFood)
             /\ created > was.created /\ log.op = "click"
                   => sheepStoredFood = was.sheepStoredFood
             /\ log.op = "tick" /\ log.died # {} /\ ~log.spawned
                   => foodTotal(faceGrass, sheepStoredFood)
                         = foodTotal(was.faceGrass, was.sheepStoredFood)

\* C35 happens: a slow tick has spawned a sheep for 5 of the stored food,
\* after a sheep had the last of a face's grass, less than a full bite
SpawnPaidFromGrass ==
    /\ log.op = "tick"
    /\ log.spawned
    /\ sheepStoredFood = log.foraged - SpawnCost
    /\ \E f \in Faces : faceGrass[f] = 0


\* the sheep of flock with the given id, as a set of at most one record
sheepOf(flock, id) == {flock[j] : j \in {i \in DOMAIN flock : flock[i].id = id}}

\* C36 as claimed: no sheep acts while it stands on a fully submerged face.
\* In a slow tick a sheep whose face is fully submerged after the flood of
\* that tick does not move to another face, and if every sheep at rest
\* stands on such a face nothing is foraged; so the sheep is still on the
\* submerged face when the next fast tick tests it, and dies.
SubmergedSheepDoNotAct ==
    [][(log'.op = "tick" /\ log'.slow) =>
          LET under == {k \in DOMAIN liveAfterSweep :
                          submerged(vertexWaterDepth',
                                    liveAfterSweep[k].faceIndex)}
          IN /\ \A k \in under :
                   \A s \in sheepOf(sheep', liveAfterSweep[k].id) :
                      s.faceIndex = liveAfterSweep[k].faceIndex
             /\ (\A k \in DOMAIN liveAfterSweep :
                    liveAfterSweep[k].movement = <<>> => k \in under)
                   => log'.foraged = sheepStoredFood]_vars


\* C37: a click on a fully submerged face, and an intersection without a
\* face index, changes nothing: the flocking point, the sheep, the slots,
\* everything but the count of clicks stays as it was and the flag is not
\* set.  So the flocking point is a face that is not fully submerged when a
\* click sets it; no other step sets it, and none clears it when the face
\* is submerged later.
IgnoredClickChangesNothing ==
    log.op # "init" =>
       LET was == log.before
       IN /\ log.op = "click" =>
                /\ (log.face = Null
                      \/ submerged(was.vertexWaterDepth, log.face))
                      => ~log.accepted
                /\ ~log.accepted
                      => /\ kept(was, {"heightmap", "vertexWaterDepth",
                                       "faceGrass", "sheep",
                                       "faceSheepSlotFree", "flockingPoint",
                                       "waterLevel", "waterCounter", "frame",
                                       "sheepStoredFood", "templeLevel",
                                       "errors", "created"})
                         /\ ~log.flagSet
          /\ flockingPoint # was.flockingPoint =>
                /\ log.op = "click"
                /\ flockingPoint \in Faces
                /\ ~submerged(vertexWaterDepth, flockingPoint)
          /\ log.op = "tick" => flockingPoint = was.flockingPoint

\* C37 happens: a click on a fully submerged face has been ignored, and the
\* flocking point, set when its face was dry, is fully submerged by now
ClickUnderWaterIgnored ==
    /\ log.op = "click"
    /\ ~log.accepted
    /\ log.face # Null
    /\ submerged(vertexWaterDepth, log.face)
    /\ flockingPoint # Null
    /\ submerged(vertexWaterDepth, flockingPoint)


\* the free slots of the faces within 2 hops of face f that are not fully
\* submerged
freeSlotsNear(f) ==
    LET near == {t \in within(f, 2) : ~submerged(vertexWaterDepth, t)}
    IN sumOver([t \in Faces |->
                   IF faceSheepSlotFree[t] = Undefined THEN 3
                   ELSE Cardinality({s \in 1..3 : faceSheepSlotFree[t][s]})],
               near)

\* C38 as claimed: the first accepted click creates exactly min(20, the free
\* slots of the not fully submerged faces within 2 hops of the clicked
\* face) sheep, at least 1, each on a face within 2 hops of the clicked
\* face.
FirstFlockFillsFreeSlots ==
    [][(log'.op = "click" /\ log'.accepted /\ flockingPoint = Null) =>
          /\ Len(sheep') = Min2(FirstFlock, freeSlotsNear(log'.face))
          /\ Len(sheep') >= 1
          /\ \A k \in DOMAIN sheep' :
                sheep'[k].faceIndex \in within(log'.face, 2)]_vars


\* the surface height (height + depth) of the k-th vertex of face f
surfaceAt(f, k) ==
    heightmap[faceToVertices[f][k]] + vertexWaterDepth[faceToVertices[f][k]]

\* C39: the water depth used to colour a face is the maximum of the 3 vertex
\* depths when all 3 are positive, otherwise the depth of the vertex with the
\* highest surface height (height + depth), the first such vertex in face
\* order on ties; the face's colour is colorMap of that depth, and
\* setupVertices sets each vertex's z to its height plus its water depth.
FaceColouredByWaterDepth ==
    log.op = "setupVertices"
    => \A f \in Faces :
          LET d == [k \in 1..3 |-> vertexWaterDepth[faceToVertices[f][k]]]
              used == log.faceWaterDepth[f]
          IN /\ (\A k \in 1..3 : d[k] > 0)
                   => /\ \E k \in 1..3 : used = d[k]
                      /\ \A k \in 1..3 : d[k] <= used
             /\ (\E k \in 1..3 : d[k] <= 0)
                   => \E k \in 1..3 :
                         /\ used = d[k]
                         /\ \A j \in 1..3 : surfaceAt(f, j) <= surfaceAt(f, k)
                         /\ \A j \in 1 .. (k - 1) :
                               surfaceAt(f, j) < surfaceAt(f, k)
             /\ \A e \in faceEntries(f) :
                   /\ log.colors[e] =
                         scaled(colorMap(
                                   SetMax({heightmap[faceToVertices[f][k]] :
                                             k \in 1..3}),
                                   faceGrass[f], used), 2)
                   /\ log.positions[e][2] =
                         surfaceAt(f, e - f * 3 + 1)

\* C39 happens: setupVertices has painted a fully wet face by a depth that
\* is not its first vertex's, a partly wet face as land because its first
\* highest vertex is dry, and a partly wet face as water because its first
\* highest vertex is wet
BothColouringModesUsed ==
    /\ log.op = "setupVertices"
    /\ \E f \in Faces :
          /\ submerged(vertexWaterDepth, f)
          /\ log.faceWaterDepth[f] > vertexWaterDepth[faceToVertices[f][1]]
          /\ log.colors[f * 3] = scaled(LightishBlue, 2)
    /\ \E f \in Faces :
          /\ ~submerged(vertexWaterDepth, f)
          /\ \E k \in 1..3 : vertexWaterDepth[faceToVertices[f][k]] > 0
          /\ log.faceWaterDepth[f] <= 0
          /\ \A k \in 1..3 : surfaceAt(f, k) = surfaceAt(f, 1)
    /\ \E f \in Faces :
          /\ ~submerged(vertexWaterDepth, f)
          /\ log.faceWaterDepth[f] > 0
          /\ log.positions[f * 3][2] > heightmap[faceToVertices[f][1]]


\* s has no element twice
distinct(s) == Cardinality(Range(s)) = Len(s)

\* C40: for every resolution r >= 1 the adjacency index is consistent and
\* bounded: f is in vertexToFaces[v] iff v is in faceToVertices[f], every
\* vertex belongs to at least 1 and at most 6 faces, adjacentPoints(v)
\* returns at most 6 distinct vertices and never v, every face has at most 3
\* adjacent faces, and faces, faceToVertices and vertexToFaces are the same
\* after any number of ticks.
IndexConsistentAndBounded ==
    /\ [](log.op # "init"
          => LET f2v == log.faceToVertices
                 v2f == log.vertexToFaces
             IN /\ DOMAIN v2f = 0 .. ((log.r + 1) * (log.r + 1) - 1)
                /\ DOMAIN f2v = Range(log.faces)
                /\ \A v \in DOMAIN v2f : Range(v2f[v]) \subseteq DOMAIN f2v
                /\ \A f \in DOMAIN f2v : Range(f2v[f]) \subseteq DOMAIN v2f
                /\ \A v \in DOMAIN v2f : \A f \in DOMAIN f2v :
                      f \in Range(v2f[v]) <=> v \in Range(f2v[f])
                /\ \A v \in DOMAIN v2f :
                      /\ Len(v2f[v]) >= 1
                      /\ Len(v2f[v]) <= 6
                      /\ distinct(v2f[v])
                /\ log.op = "adjacentPoints"
                      => /\ Len(log.result) <= 6
                         /\ distinct(log.result)
                         /\ log.arg \notin Range(log.result)
                         /\ Range(log.result) \subseteq DOMAIN v2f
                /\ log.op = "adjacentFaces"
                      => /\ Len(log.result) <= 3
                         /\ distinct(log.result)
                         /\ log.arg \notin Range(log.result))
    /\ [][log.op # "init"
            => /\ log'.r = log.r
               /\ log'.faces = log.faces
               /\ log'.faceToVertices = log.faceToVertices
               /\ log'.vertexToFaces = log.vertexToFaces]_vars

\* C40 happens: after the ticks of the run, adjacentPoints of a vertex that
\* belongs to 6 faces has returned 6 vertices, one for each temple pillar
SixNeighboursAfterTicks ==
    /\ log.op = "adjacentPoints"
    /\ log.ticks = MaxIndexTicks
    /\ log.r = MaxResolution
    /\ Len(log.vertexToFaces[log.arg]) = 6
    /\ Len(log.result) = 6

=============================================================================
